---- MODULE Spec2Model ----
(***************************************************************************)
(* Model of src/deploy.py (LolipopDeployTool): the change-set resolution,  *)
(* the always-sync merge and one deploy run against an FTP session.        *)
(*                                                                         *)
(* Paths, exclusion patterns and git status fields are sequences of        *)
(* one-character strings, so that str.startswith, str.endswith, the `in`   *)
(* substring test and sorted() are computed as Python computes them.       *)
(* One line of git output is the sequence of its tab-separated fields.     *)
(***************************************************************************)
EXTENDS Integers, Sequences, FiniteSets, TLC

\* ------------------------------------------------------------- bounds
\* number of lines of the git answer (diff or file list) drawn for a run
MaxGitLines == 2
\* number of entries of an application's always_deploy_files list
MaxAlways == 2
\* number of lines of git output drawn for a get_changed_files call
MaxLines == 2
\* number of entries of exclude_patterns drawn for a get_changed_files call
MaxPatterns == 2
\* paths in the argument of a filter_files call
MaxFiles == 3
\* save_deploy_commit calls in a row
MaxSaves == 2

\* ---------------------------------------------------- program constants
\* default of the retries parameter of upload_file and delete_remote_file
Retries == 3

None == "None"

\* ----------------------------------------------------- string helpers
Min(a, b) == IF a < b THEN a ELSE b

\* the characters of the model's strings, in code point order
Alphabet == <<"*", ".", "/", "2", "a", "c", "g", "j", "k", "l", "o", "s", "x", "y">>

Ord(ch) == CHOOSE i \in 1..Len(Alphabet) : Alphabet[i] = ch

\* s.startswith(p)
StartsWith(s, p) == Len(p) <= Len(s) /\ SubSeq(s, 1, Len(p)) = p

\* s.endswith(p)
EndsWith(s, p) == Len(p) <= Len(s) /\ SubSeq(s, Len(s) - Len(p) + 1, Len(s)) = p

\* p in s
Contains(s, p) == \E i \in 0..(Len(s) - Len(p)) : SubSeq(s, i + 1, i + Len(p)) = p

\* a < b, as Python compares two str
StrLess(a, b) ==
    \/ Len(a) < Len(b) /\ SubSeq(b, 1, Len(a)) = a
    \/ \E i \in 1..Min(Len(a), Len(b)) :
          /\ SubSeq(a, 1, i - 1) = SubSeq(b, 1, i - 1)
          /\ Ord(a[i]) < Ord(b[i])

\* sorted(list(S)) for a set S of str
RECURSIVE Sorted(_)
Sorted(S) ==
    IF S = {} THEN <<>>
    ELSE LET m == CHOOSE x \in S : \A y \in S \ {x} : StrLess(x, y)
         IN  <<m>> \o Sorted(S \ {m})

\* set(list)
ToSet(seq) == {seq[i] : i \in 1..Len(seq)}

\* the sequences over S of length at most n
SeqsUpTo(S, n) == UNION {[1..k -> S] : k \in 0..n}

\* Path(p).as_posix() and PurePosixPath(p).as_posix() on the relative paths
\* of the model: trailing separators are dropped
RECURSIVE AsPosix(_)
AsPosix(p) ==
    IF Len(p) > 1 /\ p[Len(p)] = "/" THEN AsPosix(SubSeq(p, 1, Len(p) - 1)) ELSE p

\* (PurePosixPath(remote_path) / rel).as_posix()
RemoteJoin(remote_path, rel) == AsPosix(remote_path) \o <<"/">> \o AsPosix(rel)

\* ------------------------------------------------------- filter_files
\* a test that treats every pattern as a substring
PatternExcludesSubstringOnly(pattern, file) == Contains(file, pattern)

\* one pass of the inner loop of filter_files: does `pattern` exclude `file`
PatternExcludes(pattern, file) ==
    IF StartsWith(pattern, <<"*">>)
    THEN EndsWith(file, SubSeq(pattern, 2, Len(pattern)))
    ELSE Contains(file, pattern)

\* the should_exclude flag filter_files computes for one file
ShouldExclude(file, patterns) ==
    \E i \in 1..Len(patterns) : PatternExcludes(patterns[i], file)

\* LolipopDeployTool.filter_files
FilterFiles(files, patterns) ==
    SelectSeq(files, LAMBDA f : ~ShouldExclude(f, patterns))

\* -------------------------------------------------- get_changed_files
\* the loop over `git diff --name-status` lines: the two lists it builds
RECURSIVE ParseDiff(_)
ParseDiff(lines) ==
    IF lines = <<>> THEN [added |-> <<>>, deleted |-> <<>>]
    ELSE LET rest == ParseDiff(Tail(lines))
             parts == Head(lines)
         IN  IF parts = <<>> THEN rest
             ELSE IF StartsWith(parts[1], <<"R">>)
             THEN [added |-> <<parts[3]>> \o rest.added,
                   deleted |-> <<parts[2]>> \o rest.deleted]
             ELSE IF StartsWith(parts[1], <<"D">>)
             THEN [added |-> rest.added, deleted |-> <<parts[2]>> \o rest.deleted]
             ELSE [added |-> <<parts[2]>> \o rest.added, deleted |-> rest.deleted]

\* the list built from the lines of `git ls-files`
RECURSIVE ParseLsFiles(_)
ParseLsFiles(lines) ==
    IF lines = <<>> THEN <<>>
    ELSE IF Head(lines) = <<>> THEN ParseLsFiles(Tail(lines))
    ELSE <<Head(lines)[1]>> \o ParseLsFiles(Tail(lines))

\* a resolver that treats a rename like any other entry and uploads field 1
GetChangedFilesRenameAsModify(stdout, from_commit, patterns) ==
    LET RECURSIVE P(_)
        P(lines) ==
            IF lines = <<>> THEN [added |-> <<>>, deleted |-> <<>>]
            ELSE LET rest == P(Tail(lines))
                     parts == Head(lines)
                 IN  IF parts = <<>> THEN rest
                     ELSE IF StartsWith(parts[1], <<"D">>)
                     THEN [added |-> rest.added,
                           deleted |-> <<parts[2]>> \o rest.deleted]
                     ELSE [added |-> <<parts[2]>> \o rest.added,
                           deleted |-> rest.deleted]
    IN  IF from_commit # None
        THEN [upload |-> FilterFiles(P(stdout).added, patterns),
              delete |-> FilterFiles(P(stdout).deleted, patterns)]
        ELSE [upload |-> FilterFiles(ParseLsFiles(stdout), patterns), delete |-> <<>>]

\* a resolver that filters the upload list only
GetChangedFilesUnfilteredDelete(stdout, from_commit, patterns) ==
    IF from_commit # None
    THEN [upload |-> FilterFiles(ParseDiff(stdout).added, patterns),
          delete |-> ParseDiff(stdout).deleted]
    ELSE [upload |-> FilterFiles(ParseLsFiles(stdout), patterns), delete |-> <<>>]

\* LolipopDeployTool.get_changed_files, given the stdout of the git query it
\* ran (the diff when from_commit is truthy, the file list otherwise)
GetChangedFiles(stdout, from_commit, patterns) ==
    IF from_commit # None
    THEN [upload |-> FilterFiles(ParseDiff(stdout).added, patterns),
          delete |-> FilterFiles(ParseDiff(stdout).deleted, patterns)]
    ELSE [upload |-> FilterFiles(ParseLsFiles(stdout), patterns), delete |-> <<>>]

\* ------------------------------------------------- the model's universe
\* the applications of self.config['apps']; app_config['remote_path']
Apps == {"app1", "app2"}
RemoteRoot == <<"/", "s">>

Revs == {"r1", "r2"}

a_js == <<"a", ".", "j", "s">>
c_x == <<"c", "/", "x">>
c2_y == <<"c", "2", "/", "y">>
k_log == <<"k", ".", "l", "o", "g">>
c_dir == <<"c">>
c_slash == <<"c", "/">>
star_log == <<"*", ".", "l", "o", "g">>
dot_js == <<".", "j", "s">>
star == <<"*">>
c2 == <<"c", "2">>
c_o == <<"c", "/", "o">>

st_A == <<"A">>
st_M == <<"M">>
st_D == <<"D">>
st_R == <<"R", "1", "0", "0">>

\* lines `git diff --name-status` may print in a run, in path order
DiffPool == << <<st_M, a_js>>, <<st_D, c_x>>, <<st_R, c2_y, a_js>>,
               <<st_D, c2_y>>, <<st_A, k_log>> >>

\* lines `git ls-files` may print in a run, in path order
TrackedPool == << <<a_js>>, <<c2_y>>, <<k_log>> >>

\* the answers of one git query: the sub-sequences of at most n lines of pool
RECURSIVE Pick(_, _)
Pick(pool, chosen) ==
    IF pool = <<>> THEN <<>>
    ELSE (IF 1 \in chosen THEN <<Head(pool)>> ELSE <<>>)
         \o Pick(Tail(pool), {i - 1 : i \in chosen \ {1}})

GitAnswers(pool, n) ==
    {Pick(pool, chosen) : chosen \in {s \in SUBSET (1..Len(pool)) : Cardinality(s) <= n}}

\* files and directories that may exist below the application's local_path
WorkFiles == {a_js, c_x, k_log}
WorkDirs == {c_dir}

\* the always_deploy_files entries an application may configure
AlwaysPool == {c_slash, k_log}

\* ------------------------------------------------------------- state
VARIABLES
    \* configuration and command line
    app_name, all, dry_run, exclude_patterns, overwrite, always_deploy_files,
    \* the local side
    path_state,        \* "missing", "nogit" or "repo": what local_path is
    head,              \* the revision `git rev-parse HEAD` names
    local_files,       \* files below local_path
    local_dirs,        \* directories below local_path
    \* deploy_history.json: application -> record, NoRecord when it has no entry
    deploy_log,
    \* locals of deploy()
    pc, current_commit, last_deploy_commit,
    from_commit,       \* the baseline handed to get_changed_files
    changes,           \* what get_changed_files returned
    files_to_upload, files_to_delete, dirs_to_clear,
    files_to_upload_list, files_to_delete_list,
    idx,               \* position of the running for loop, 1-based
    attempt,           \* the attempt of upload_file / delete_remote_file
    upload_success_count, delete_success_count, total_fail_count,
    pending,           \* what deploy() is about to return or raise
    result,            \* how deploy() ended
    \* the FTP session
    ftp,               \* "none", "connected", "open" or "closed"
    \* observations
    git_query,         \* the git query get_changed_files ran, its stdout
    git_stdout,
    connect_calls, quit_calls, save_calls,
    clear_results,     \* what each clear_remote_directory call returned
    log,               \* the completed clear / delete / upload calls, in order
    applied,           \* the run got past its three loops
    log_at_start,      \* deploy_log when the run started
    \* the remote store as deploy() meets it
    remote_files,      \* the files the server holds, by remote path
    replaced,          \* remote paths a STOR was issued for while they existed
    \* one call of clear_remote_directory or delete_remote_file, and its server
    srv_dirs, srv_files,   \* the server's tree: paths are tuples of names
    srv_denied,        \* files the server refuses to delete
    deny_code,         \* the reply code of such a refusal
    cwd,               \* the session's working directory
    original_cwd,      \* local of clear_remote_directory
    call,              \* the running call: its function and argument
    stack,             \* the frames of _clear_dir_recursively
    exc,               \* the reply code of the error_perm in flight, or None
    ret,               \* what the call returned
    sent,              \* the FTP commands the call has sent, in order
    sleeps,            \* how often the call has slept
    ensured,           \* ensure_remote_directory has returned in this call
    srv_at_start,      \* the server's tree and the session's cwd when the call started
    \* deploy_history.json under get_last_deploy_commit / save_deploy_commit
    store_state,       \* "missing", "corrupt" or "ok": what the file is
    saved,             \* application -> revision of its latest save, or None
    got,               \* the latest get_last_deploy_commit call and its result
    store_at_start,    \* store_state before the first call
    savers,            \* the save_deploy_commit calls running side by side
    \* filter_files: its argument and what it returned
    filter_arg, filtered,
    \* main(): the configuration file, --list, the status the process ended with
    config_state, arg_list, exit_status,
    init_raised        \* the exception that left LolipopDeployTool(...), or None

cfg_vars == <<app_name, all, dry_run, exclude_patterns, overwrite,
              always_deploy_files, path_state, head, local_files, local_dirs>>
plan_vars == <<current_commit, last_deploy_commit, from_commit, changes, files_to_upload,
               files_to_delete, dirs_to_clear, files_to_upload_list,
               files_to_delete_list, git_query, git_stdout>>
count_vars == <<upload_success_count, delete_success_count, total_fail_count>>
ftp_vars == <<ftp, connect_calls, quit_calls>>
remote_vars == <<remote_files, replaced>>
srv_vars == <<srv_dirs, srv_files, srv_denied, deny_code, cwd, original_cwd, call,
              stack, exc, ret, sent, sleeps, ensured, srv_at_start>>
store_vars == <<store_state, saved, got, store_at_start, savers>>
filter_vars == <<filter_arg, filtered>>
main_vars == <<config_state, arg_list, exit_status, init_raised>>
unit_vars == <<store_vars, filter_vars, main_vars>>
vars == <<cfg_vars, plan_vars, count_vars, ftp_vars, deploy_log, pc, idx, attempt,
          pending, result, save_calls, clear_results, log, applied, log_at_start,
          remote_vars, srv_vars, unit_vars>>

\* a Deploy Record of deploy_history.json, and the value that stands for an
\* application without an entry
Record(commit, stamp) == [last_commit |-> commit, last_deploy |-> stamp]
NoRecord == Record(None, None)

\* the locals of a deploy() call that has not started
IdleRun ==
    /\ current_commit = None /\ last_deploy_commit = None /\ from_commit = None
    /\ changes = [upload |-> <<>>, delete |-> <<>>]
    /\ files_to_upload = {} /\ files_to_delete = {} /\ dirs_to_clear = <<>>
    /\ files_to_upload_list = <<>> /\ files_to_delete_list = <<>>
    /\ idx = 0 /\ attempt = 0
    /\ upload_success_count = 0 /\ delete_success_count = 0 /\ total_fail_count = 0
    /\ pending = None /\ result = None
    /\ ftp = "none" /\ connect_calls = 0 /\ quit_calls = 0 /\ save_calls = 0
    /\ git_query = None /\ git_stdout = <<>>
    /\ clear_results = <<>> /\ log = <<>> /\ applied = FALSE

\* no call of clear_remote_directory or delete_remote_file is modelled
IdleServer ==
    /\ srv_dirs = {} /\ srv_files = {} /\ srv_denied = {} /\ deny_code = None
    /\ cwd = <<>> /\ original_cwd = <<>>
    /\ call = [fn |-> None, arg |-> <<>>]
    /\ stack = <<>> /\ exc = None /\ ret = None /\ sent = <<>>
    /\ sleeps = 0 /\ ensured = FALSE
    /\ srv_at_start = [dirs |-> {}, files |-> {}, cwd |-> <<>>]

\* deploy_history.json is a readable file and no call on it is modelled
IdleStore ==
    /\ store_state = "ok" /\ saved = [a \in Apps |-> None]
    /\ store_at_start = "ok" /\ savers = <<>>
    /\ got = [app |-> None, value |-> None]

\* no filter_files call is modelled
IdleFilter == filter_arg = <<>> /\ filtered = <<>>

\* the tool is constructed from a readable configuration; main() is not modelled
IdleMain ==
    config_state = "ok" /\ arg_list = FALSE /\ exit_status = None /\ init_raised = None

\* no remote store is modelled
IdleRemote == remote_files = {} /\ replaced = {}

\* what the remote store may hold when a run starts
RemoteStarts == {{}, {RemoteJoin(RemoteRoot, a_js), RemoteJoin(RemoteRoot, c_o)}}

\* directories a set of files needs
ParentDirs(files) == {d \in WorkDirs : \E f \in files : StartsWith(f, d \o <<"/">>)}

\* the state when deploy(app_name, all, dry_run) is called
Init ==
    /\ app_name \in {"app1", "ghost"}
    /\ all \in BOOLEAN /\ dry_run \in BOOLEAN
    /\ exclude_patterns = <<star_log>>
    /\ overwrite \in BOOLEAN
    /\ always_deploy_files \in SeqsUpTo(AlwaysPool, MaxAlways)
    /\ path_state \in {"missing", "nogit", "repo"}
    /\ head \in Revs
    /\ local_files \in SUBSET WorkFiles
    /\ local_dirs \in {ParentDirs(local_files) \cup d : d \in SUBSET WorkDirs}
    /\ deploy_log \in {[a \in Apps |-> IF a = "app1" THEN r1 ELSE Record("r1", "t0")] :
                          r1 \in {NoRecord} \cup {Record(r, "t0") : r \in Revs}}
    /\ log_at_start = deploy_log
    /\ remote_files \in RemoteStarts /\ replaced = {}
    /\ pc = "validate"
    /\ IdleRun
    /\ IdleServer
    /\ IdleStore /\ IdleFilter /\ IdleMain

\* --------------------------------------------- the always-sync merge
\* full_path.exists(), full_path.is_dir(), full_path.is_file()
IsDir(path_str, dirs) == AsPosix(path_str) \in dirs
IsFile(path_str, files) == AsPosix(path_str) \in files

\* the files full_path.rglob('*') finds, relative to local_path
FilesUnder(path_str, files) ==
    {f \in files : StartsWith(f, AsPosix(path_str) \o <<"/">>)}

\* a loop body that has no branch for a single file
MergeOneSkipsFiles(m, path_str, files, dirs, remote_path) ==
    IF IsDir(path_str, dirs)
    THEN [upload |-> m.upload \cup FilesUnder(path_str, files),
          delete |-> {f \in m.delete : ~StartsWith(f, AsPosix(path_str) \o <<"/">>)},
          clear  |-> Append(m.clear, RemoteJoin(remote_path, path_str))]
    ELSE m

\* a loop body that passes what it adds through the exclusion patterns
MergeOneFiltered(m, path_str, files, dirs, remote_path) ==
    IF IsDir(path_str, dirs)
    THEN [upload |-> m.upload \cup {f \in FilesUnder(path_str, files) :
                                        ~ShouldExclude(f, exclude_patterns)},
          delete |-> {f \in m.delete : ~StartsWith(f, AsPosix(path_str) \o <<"/">>)},
          clear  |-> Append(m.clear, RemoteJoin(remote_path, path_str))]
    ELSE IF IsFile(path_str, files) /\ ~ShouldExclude(AsPosix(path_str), exclude_patterns)
    THEN [m EXCEPT !.upload = @ \cup {AsPosix(path_str)}]
    ELSE m

\* a loop body that prunes the delete set by the directory's name alone
MergeOnePrefixNoSeparator(m, path_str, files, dirs, remote_path) ==
    IF IsDir(path_str, dirs)
    THEN [upload |-> m.upload \cup FilesUnder(path_str, files),
          delete |-> {f \in m.delete : ~StartsWith(f, AsPosix(path_str))},
          clear  |-> Append(m.clear, RemoteJoin(remote_path, path_str))]
    ELSE IF IsFile(path_str, files)
    THEN [m EXCEPT !.upload = @ \cup {AsPosix(path_str)}]
    ELSE m

\* a loop body that leaves the delete set alone when it meets a directory
MergeOneNoPrune(m, path_str, files, dirs, remote_path) ==
    IF IsDir(path_str, dirs)
    THEN [upload |-> m.upload \cup FilesUnder(path_str, files),
          delete |-> m.delete,
          clear  |-> Append(m.clear, RemoteJoin(remote_path, path_str))]
    ELSE IF IsFile(path_str, files)
    THEN [m EXCEPT !.upload = @ \cup {AsPosix(path_str)}]
    ELSE m

\* the body of the loop over always_deploy_paths for one path_str; m holds
\* files_to_upload, files_to_delete and dirs_to_clear
MergeOne(m, path_str, files, dirs, remote_path) ==
    IF IsDir(path_str, dirs)
    THEN [upload |-> m.upload \cup FilesUnder(path_str, files),
          delete |-> {f \in m.delete : ~StartsWith(f, AsPosix(path_str) \o <<"/">>)},
          clear  |-> Append(m.clear, RemoteJoin(remote_path, path_str))]
    ELSE IF IsFile(path_str, files)
    THEN [m EXCEPT !.upload = @ \cup {AsPosix(path_str)}]
    ELSE m

\* the 'always_deploy_files' block of deploy()
RECURSIVE MergeAlways(_, _, _, _, _)
MergeAlways(m, paths, files, dirs, remote_path) ==
    IF paths = <<>> THEN m
    ELSE MergeAlways(MergeOne(m, Head(paths), files, dirs, remote_path),
                     Tail(paths), files, dirs, remote_path)

\* -------------------------------------------------- deploy(): the plan
\* a deploy() that does not look for the .git directory
ValidateNoGitCheck ==
    /\ pc = "validate"
    /\ IF app_name \notin Apps \/ path_state = "missing"
       THEN pc' = "done" /\ result' = "False"
       ELSE pc' = "rev" /\ result' = result
    /\ UNCHANGED <<cfg_vars, plan_vars, count_vars, ftp_vars, deploy_log, idx, attempt,
                   pending, save_calls, clear_results, log, applied, log_at_start, remote_vars, srv_vars, unit_vars>>

\* the exits of deploy() before any git query
Validate ==
    /\ pc = "validate"
    /\ IF app_name \notin Apps \/ path_state # "repo"
       THEN pc' = "done" /\ result' = "False"
       ELSE pc' = "rev" /\ result' = result
    /\ UNCHANGED <<cfg_vars, plan_vars, count_vars, ftp_vars, deploy_log, idx, attempt,
                   pending, save_calls, clear_results, log, applied, log_at_start, remote_vars, srv_vars, unit_vars>>

\* get_current_commit: `git rev-parse HEAD` answers, or fails and the process exits
GetCurrentCommit ==
    /\ pc = "rev"
    /\ \/ pc' = "last" /\ current_commit' = head /\ result' = result
       \/ pc' = "done" /\ current_commit' = current_commit /\ result' = "SystemExit"
    /\ UNCHANGED <<cfg_vars, last_deploy_commit, from_commit, changes, files_to_upload,
                   files_to_delete, dirs_to_clear, files_to_upload_list,
                   files_to_delete_list, git_query, git_stdout, count_vars, ftp_vars,
                   deploy_log, idx, attempt, pending, save_calls, clear_results, log,
                   applied, log_at_start, remote_vars, srv_vars, unit_vars>>

\* what json.load gives for deploy_history.json; a missing or unreadable
\* file gives no entry at all
ReadStore == IF store_state = "ok" THEN deploy_log ELSE [a \in Apps |-> NoRecord]

\* get_last_deploy_commit
GetLastDeployCommit(app) == ReadStore[app].last_commit

\* a deploy() that never skips a run whose revision is already recorded
CheckLastNoSkip ==
    /\ pc = "last"
    /\ last_deploy_commit' = GetLastDeployCommit(app_name)
    /\ pc' = "changes" /\ result' = result
    /\ UNCHANGED <<cfg_vars, current_commit, from_commit, changes, files_to_upload,
                   files_to_delete,
                   dirs_to_clear, files_to_upload_list, files_to_delete_list, git_query,
                   git_stdout, count_vars, ftp_vars, deploy_log, idx, attempt, pending,
                   save_calls, clear_results, log, applied, log_at_start, remote_vars, srv_vars, unit_vars>>

\* the recorded revision and the "no changes" exit of deploy()
CheckLast ==
    /\ pc = "last"
    /\ last_deploy_commit' = GetLastDeployCommit(app_name)
    /\ IF /\ last_deploy_commit' # None
          /\ last_deploy_commit' = current_commit
          /\ ~all
       THEN pc' = "done" /\ result' = "True"
       ELSE pc' = "changes" /\ result' = result
    /\ UNCHANGED <<cfg_vars, current_commit, from_commit, changes, files_to_upload,
                   files_to_delete,
                   dirs_to_clear, files_to_upload_list, files_to_delete_list, git_query,
                   git_stdout, count_vars, ftp_vars, deploy_log, idx, attempt, pending,
                   save_calls, clear_results, log, applied, log_at_start, remote_vars, srv_vars, unit_vars>>

\* the baseline deploy() hands to get_changed_files
FromCommit == IF all \/ last_deploy_commit = None THEN None ELSE last_deploy_commit

\* a deploy() that hands the recorded revision to get_changed_files even when
\* the run is forced, and keeps the deletes of the answer
ResolveChangesKeepBaseline ==
    /\ pc = "changes"
    /\ \/ /\ \E out \in IF last_deploy_commit # None
                        THEN GitAnswers(DiffPool, MaxGitLines)
                        ELSE GitAnswers(TrackedPool, MaxGitLines) :
               /\ git_query' = IF last_deploy_commit # None THEN "diff" ELSE "ls-files"
               /\ git_stdout' = out
               /\ from_commit' = last_deploy_commit
               /\ changes' = GetChangedFiles(out, last_deploy_commit, exclude_patterns)
          /\ files_to_upload' = ToSet(changes'.upload)
          /\ files_to_delete' = ToSet(changes'.delete)
          /\ pc' = "merge" /\ result' = result
       \/ /\ pc' = "done" /\ result' = "SystemExit"
          /\ UNCHANGED <<changes, files_to_upload, files_to_delete, git_query, git_stdout,
                         from_commit>>
    /\ UNCHANGED <<cfg_vars, current_commit, last_deploy_commit, dirs_to_clear,
                   files_to_upload_list, files_to_delete_list, count_vars, ftp_vars,
                   deploy_log, idx, attempt, pending, save_calls, clear_results, log,
                   applied, log_at_start, remote_vars, srv_vars, unit_vars>>

\* get_changed_files as deploy() calls it: the git query answers and the
\* change-set is resolved, or the query fails and the process exits
ResolveChanges ==
    /\ pc = "changes"
    /\ \/ /\ \E out \in IF FromCommit # None
                        THEN GitAnswers(DiffPool, MaxGitLines)
                        ELSE GitAnswers(TrackedPool, MaxGitLines) :
               /\ git_query' = IF FromCommit # None THEN "diff" ELSE "ls-files"
               /\ git_stdout' = out
               /\ from_commit' = FromCommit
               /\ changes' = GetChangedFiles(out, FromCommit, exclude_patterns)
          /\ files_to_upload' = ToSet(changes'.upload)
          /\ files_to_delete' = IF all \/ last_deploy_commit = None
                                THEN {} ELSE ToSet(changes'.delete)
          /\ pc' = "merge" /\ result' = result
       \/ /\ pc' = "done" /\ result' = "SystemExit"
          /\ UNCHANGED <<changes, files_to_upload, files_to_delete, git_query, git_stdout,
                         from_commit>>
    /\ UNCHANGED <<cfg_vars, current_commit, last_deploy_commit, dirs_to_clear,
                   files_to_upload_list, files_to_delete_list, count_vars, ftp_vars,
                   deploy_log, idx, attempt, pending, save_calls, clear_results, log,
                   applied, log_at_start, remote_vars, srv_vars, unit_vars>>

\* the always_deploy_files block and the two sorted lists
Merge ==
    /\ pc = "merge"
    /\ LET m == MergeAlways([upload |-> files_to_upload, delete |-> files_to_delete,
                             clear |-> <<>>],
                            always_deploy_files, local_files, local_dirs, RemoteRoot)
       IN  /\ files_to_upload' = m.upload
           /\ files_to_delete' = m.delete
           /\ dirs_to_clear' = m.clear
           /\ files_to_upload_list' = Sorted(m.upload)
           /\ files_to_delete_list' = Sorted(m.delete)
    /\ pc' = "plan"
    /\ UNCHANGED <<cfg_vars, current_commit, last_deploy_commit, from_commit, changes,
                   git_query, git_stdout, count_vars, ftp_vars, deploy_log, idx, attempt, pending,
                   result, save_calls, clear_results, log, applied, log_at_start, remote_vars, srv_vars, unit_vars>>

\* a save that leaves an entry alone once the application has one
SaveDeployCommitKeepsFirst(app, commit_hash) ==
    IF ReadStore[app] # NoRecord THEN ReadStore
    ELSE [ReadStore EXCEPT ![app] = Record(commit_hash, "now")]

\* save_deploy_commit(app, commit_hash): the store after the rewrite
SaveDeployCommit(app, commit_hash) ==
    [ReadStore EXCEPT ![app] = Record(commit_hash, "now")]

\* a deploy() that connects whatever dry_run says
PlanIgnoresDryRun ==
    /\ pc = "plan"
    /\ IF files_to_upload_list = <<>> /\ files_to_delete_list = <<>> /\ dirs_to_clear = <<>>
       THEN /\ pc' = "done"
            /\ IF last_deploy_commit # current_commit
               THEN /\ save_calls' = save_calls + 1
                    /\ deploy_log' = SaveDeployCommit(app_name, current_commit)
                    /\ result' = "True"
               ELSE /\ result' = "True"
                    /\ UNCHANGED <<deploy_log, save_calls>>
       ELSE /\ pc' = "connect" /\ result' = result
            /\ UNCHANGED <<deploy_log, save_calls>>
    /\ UNCHANGED <<cfg_vars, plan_vars, count_vars, ftp_vars, idx, attempt, pending,
                   clear_results, log, applied, log_at_start, remote_vars, srv_vars, unit_vars>>

\* a deploy() whose exit with nothing to do rewrites the record every time
PlanAlwaysSaves ==
    /\ pc = "plan"
    /\ IF files_to_upload_list = <<>> /\ files_to_delete_list = <<>> /\ dirs_to_clear = <<>>
       THEN /\ pc' = "done"
            /\ save_calls' = save_calls + 1
            /\ deploy_log' = SaveDeployCommit(app_name, current_commit)
            /\ result' = "True"
       ELSE /\ IF dry_run
               THEN pc' = "done" /\ result' = "True"
               ELSE pc' = "connect" /\ result' = result
            /\ UNCHANGED <<deploy_log, save_calls>>
    /\ UNCHANGED <<cfg_vars, plan_vars, count_vars, ftp_vars, idx, attempt, pending,
                   clear_results, log, applied, log_at_start, remote_vars, srv_vars, unit_vars>>

\* the exits of deploy() with nothing to do and in dry-run mode
Plan ==
    /\ pc = "plan"
    /\ IF files_to_upload_list = <<>> /\ files_to_delete_list = <<>> /\ dirs_to_clear = <<>>
       THEN /\ pc' = "done"
            /\ IF last_deploy_commit # current_commit
               THEN /\ save_calls' = save_calls + 1
                    /\ deploy_log' = SaveDeployCommit(app_name, current_commit)
                    /\ result' = "True"
               ELSE /\ result' = "True"
                    /\ UNCHANGED <<deploy_log, save_calls>>
       ELSE /\ IF dry_run
               THEN pc' = "done" /\ result' = "True"
               ELSE pc' = "connect" /\ result' = result
            /\ UNCHANGED <<deploy_log, save_calls>>
    /\ UNCHANGED <<cfg_vars, plan_vars, count_vars, ftp_vars, idx, attempt, pending,
                   clear_results, log, applied, log_at_start, remote_vars, srv_vars, unit_vars>>

\* the exit status main() ends the process with: deploy() returned `success`,
\* or left by sys.exit(1) or by another exception
ExitStatus(outcome, preview) ==
    CASE outcome \in {"True", "False"} ->
             IF preview THEN 0 ELSE IF outcome = "True" THEN 0 ELSE 1
      [] OTHER -> 1

\* a connect_ftp that hands out the session before the login
ConnectFtpNoLogin ==
    /\ pc = "connect"
    /\ connect_calls' = connect_calls + 1
    /\ \/ ftp' = "connected" /\ pc' = "clear" /\ idx' = 1 /\ result' = result
       \/ ftp' = "none" /\ pc' = "done" /\ idx' = idx /\ result' = "SystemExit"
    /\ UNCHANGED <<cfg_vars, plan_vars, count_vars, quit_calls, deploy_log, attempt,
                   pending, save_calls, clear_results, log, applied, log_at_start,
                   remote_vars, srv_vars, unit_vars>>

\* a connect_ftp that tries a second time when the first connection fails
ConnectFtpSecondTry ==
    /\ pc = "connect"
    /\ connect_calls' = connect_calls + 1
    /\ \/ ftp' = "open" /\ pc' = "clear" /\ idx' = 1 /\ result' = result
       \/ /\ ftp' = "none" /\ idx' = idx
          /\ IF connect_calls = 0
             THEN pc' = "connect" /\ result' = result
             ELSE pc' = "done" /\ result' = "SystemExit"
    /\ UNCHANGED <<cfg_vars, plan_vars, count_vars, quit_calls, deploy_log, attempt,
                   pending, save_calls, clear_results, log, applied, log_at_start, remote_vars, srv_vars, unit_vars>>

\* connect_ftp: a session, or the process exits (before or after the
\* control connection is up)
ConnectFtp ==
    /\ pc = "connect"
    /\ connect_calls' = connect_calls + 1
    /\ \/ ftp' = "open" /\ pc' = "clear" /\ idx' = 1 /\ result' = result
       \/ ftp' = "none" /\ pc' = "done" /\ idx' = idx /\ result' = "SystemExit"
       \/ ftp' = "connected" /\ pc' = "done" /\ idx' = idx /\ result' = "SystemExit"
    /\ UNCHANGED <<cfg_vars, plan_vars, count_vars, quit_calls, deploy_log, attempt,
                   pending, save_calls, clear_results, log, applied, log_at_start, remote_vars, srv_vars, unit_vars>>

\* -------------------------------------------------- deploy(): the apply
\* how a clear_remote_directory call can end: True (cleared, or a 550 reply),
\* False (another error_perm), or an exception that is no error_perm
ClearOutcomes == {"True", "False", "raise"}

\* how one attempt of delete_remote_file can end: the file is deleted, a 550
\* error_perm, another error_perm, an exception that is no error_perm
DeleteOutcomes == {"deleted", "perm550", "perm", "other"}

\* how one attempt of upload_file can end: the bytes are stored, the upload
\* is skipped (overwrite off, first attempt, the size probe answers), or an
\* exception
UploadOutcomes == {"stored", "skipped", "exception"}

\* the order of the three loops of the apply, and the summary after them
PhaseAfterUploadFirst(phase) ==
    CASE phase = "clear" -> "upload"
      [] phase = "upload" -> "delete"
      [] phase = "delete" -> "summary"

PhaseAfter(phase) ==
    CASE phase = "clear" -> "delete"
      [] phase = "delete" -> "upload"
      [] phase = "upload" -> "summary"

\* the remote files below a remote directory
RemoteUnder(remote_dir) == {f \in remote_files : StartsWith(f, remote_dir \o <<"/">>)}

\* step 1 of the apply: one clear_remote_directory call, its result dropped.
\* Whatever the call answers, it has removed some of the files below the
\* directory: all of them when it ran to its end, fewer when a reply stopped it
ClearStep ==
    /\ pc = "clear"
    /\ IF idx <= Len(dirs_to_clear)
       THEN \E o \in ClearOutcomes, gone \in SUBSET RemoteUnder(dirs_to_clear[idx]) :
              /\ log' = Append(log, [op |-> "clear", path |-> dirs_to_clear[idx]])
              /\ clear_results' = Append(clear_results, o)
              /\ remote_files' = remote_files \ gone
              /\ IF o = "raise"
                 THEN pc' = "finally" /\ pending' = "raised" /\ idx' = idx
                 ELSE pc' = "clear" /\ pending' = pending /\ idx' = idx + 1
       ELSE /\ pc' = PhaseAfter("clear") /\ idx' = 1
            /\ UNCHANGED <<log, clear_results, pending, remote_files>>
    /\ UNCHANGED <<cfg_vars, plan_vars, count_vars, ftp_vars, deploy_log, attempt,
                   result, save_calls, applied, log_at_start, replaced, srv_vars, unit_vars>>

\* step 2 of the apply: one attempt of delete_remote_file for the current file
DeleteStep ==
    /\ pc = "delete"
    /\ IF idx <= Len(files_to_delete_list)
       THEN LET remote_file == RemoteJoin(RemoteRoot, files_to_delete_list[idx])
                done == Append(log, [op |-> "delete", path |-> remote_file])
            IN  \E o \in DeleteOutcomes :
                  CASE o = "deleted" /\ remote_file \in remote_files ->
                         /\ delete_success_count' = delete_success_count + 1
                         /\ log' = done /\ idx' = idx + 1 /\ attempt' = 0
                         /\ remote_files' = remote_files \ {remote_file}
                         /\ UNCHANGED <<total_fail_count, pc, pending>>
                    [] o = "perm550" ->
                         /\ delete_success_count' = delete_success_count + 1
                         /\ log' = done /\ idx' = idx + 1 /\ attempt' = 0
                         /\ UNCHANGED <<total_fail_count, pc, pending, remote_files>>
                    [] o = "perm" /\ attempt < Retries - 1 ->
                         /\ attempt' = attempt + 1
                         /\ UNCHANGED <<delete_success_count, total_fail_count, log,
                                        idx, pc, pending, remote_files>>
                    [] o = "perm" /\ attempt >= Retries - 1 ->
                         /\ total_fail_count' = total_fail_count + 1
                         /\ log' = done /\ idx' = idx + 1 /\ attempt' = 0
                         /\ UNCHANGED <<delete_success_count, pc, pending, remote_files>>
                    [] o = "other" ->
                         /\ pc' = "finally" /\ pending' = "raised" /\ log' = done
                         /\ UNCHANGED <<delete_success_count, total_fail_count, idx,
                                        attempt, remote_files>>
                    [] OTHER -> FALSE
       ELSE /\ pc' = PhaseAfter("delete") /\ idx' = 1
            /\ UNCHANGED <<delete_success_count, total_fail_count, log, attempt, pending,
                           remote_files>>
    /\ UNCHANGED <<cfg_vars, plan_vars, upload_success_count, ftp_vars, deploy_log,
                   result, save_calls, clear_results, applied, log_at_start, replaced,
                   srv_vars, unit_vars>>

\* an upload loop that gives up the rest of its list at the first file that fails
UploadStepStopsAtFailure ==
    /\ pc = "upload"
    /\ IF idx <= Len(files_to_upload_list)
       THEN LET file == files_to_upload_list[idx]
                remote_file == RemoteJoin(RemoteRoot, file)
                done == Append(log, [op |-> "upload", path |-> remote_file])
                probed == ~overwrite /\ attempt = 0
                exists == remote_file \in remote_files
            IN  IF file \notin local_files /\ file \notin local_dirs
                THEN /\ total_fail_count' = total_fail_count + 1
                     /\ idx' = idx + 1
                     /\ UNCHANGED <<upload_success_count, log, attempt, pc, remote_vars>>
                ELSE \E o \in UploadOutcomes :
                       CASE o = "skipped" /\ probed /\ exists ->
                              /\ upload_success_count' = upload_success_count + 1
                              /\ log' = done /\ idx' = idx + 1 /\ attempt' = 0
                              /\ UNCHANGED <<total_fail_count, pc, remote_vars>>
                         [] o = "stored" /\ (probed => ~exists) ->
                              /\ upload_success_count' = upload_success_count + 1
                              /\ log' = done /\ idx' = idx + 1 /\ attempt' = 0
                              /\ remote_files' = remote_files \cup {remote_file}
                              /\ replaced' = IF exists THEN replaced \cup {remote_file}
                                             ELSE replaced
                              /\ UNCHANGED <<total_fail_count, pc>>
                         [] o = "exception" /\ attempt < Retries - 1 ->
                              /\ attempt' = attempt + 1
                              /\ UNCHANGED <<upload_success_count, total_fail_count,
                                             log, idx, pc, remote_vars>>
                         [] o = "exception" /\ attempt >= Retries - 1 ->
                              /\ total_fail_count' = total_fail_count + 1
                              /\ log' = done /\ attempt' = 0
                              /\ idx' = Len(files_to_upload_list) + 1
                              /\ UNCHANGED <<upload_success_count, pc, remote_vars>>
                         [] OTHER -> FALSE
       ELSE /\ pc' = PhaseAfter("upload") /\ idx' = 1
            /\ UNCHANGED <<upload_success_count, total_fail_count, log, attempt,
                           remote_vars>>
    /\ UNCHANGED <<cfg_vars, plan_vars, delete_success_count, ftp_vars, deploy_log,
                   pending, result, save_calls, clear_results, applied, log_at_start,
                   srv_vars, unit_vars>>

\* step 3 of the apply: the local file is missing, or one attempt of
\* an upload loop that passes over a path whose local file is missing
UploadStepDropsMissing ==
    /\ pc = "upload"
    /\ IF idx <= Len(files_to_upload_list)
       THEN LET file == files_to_upload_list[idx]
                remote_file == RemoteJoin(RemoteRoot, file)
                done == Append(log, [op |-> "upload", path |-> remote_file])
                probed == ~overwrite /\ attempt = 0
                exists == remote_file \in remote_files
            IN  IF file \notin local_files /\ file \notin local_dirs
                THEN /\ idx' = idx + 1
                     /\ UNCHANGED <<upload_success_count, total_fail_count, log, attempt,
                                    pc, remote_vars>>
                ELSE \E o \in UploadOutcomes :
                       CASE o = "skipped" /\ probed /\ exists ->
                              /\ upload_success_count' = upload_success_count + 1
                              /\ log' = done /\ idx' = idx + 1 /\ attempt' = 0
                              /\ UNCHANGED <<total_fail_count, pc, remote_vars>>
                         [] o = "stored" /\ (probed => ~exists) ->
                              /\ upload_success_count' = upload_success_count + 1
                              /\ log' = done /\ idx' = idx + 1 /\ attempt' = 0
                              /\ remote_files' = remote_files \cup {remote_file}
                              /\ replaced' = IF exists THEN replaced \cup {remote_file}
                                             ELSE replaced
                              /\ UNCHANGED <<total_fail_count, pc>>
                         [] o = "exception" /\ attempt < Retries - 1 ->
                              /\ attempt' = attempt + 1
                              /\ UNCHANGED <<upload_success_count, total_fail_count,
                                             log, idx, pc, remote_vars>>
                         [] o = "exception" /\ attempt >= Retries - 1 ->
                              /\ total_fail_count' = total_fail_count + 1
                              /\ log' = done /\ idx' = idx + 1 /\ attempt' = 0
                              /\ UNCHANGED <<upload_success_count, pc, remote_vars>>
                         [] OTHER -> FALSE
       ELSE /\ pc' = PhaseAfter("upload") /\ idx' = 1
            /\ UNCHANGED <<upload_success_count, total_fail_count, log, attempt,
                           remote_vars>>
    /\ UNCHANGED <<cfg_vars, plan_vars, delete_success_count, ftp_vars, deploy_log,
                   pending, result, save_calls, clear_results, applied, log_at_start,
                   srv_vars, unit_vars>>

\* upload_file for the current file. Only the first attempt looks at
\* 'overwrite': with overwrite off it probes the remote file with SIZE, skips
\* the file when the probe answers and stores it when the probe is refused;
\* a later attempt stores without a probe
UploadStep ==
    /\ pc = "upload"
    /\ IF idx <= Len(files_to_upload_list)
       THEN LET file == files_to_upload_list[idx]
                remote_file == RemoteJoin(RemoteRoot, file)
                done == Append(log, [op |-> "upload", path |-> remote_file])
                probed == ~overwrite /\ attempt = 0
                exists == remote_file \in remote_files
            IN  IF file \notin local_files /\ file \notin local_dirs
                THEN /\ total_fail_count' = total_fail_count + 1
                     /\ idx' = idx + 1
                     /\ UNCHANGED <<upload_success_count, log, attempt, pc, remote_vars>>
                ELSE \E o \in UploadOutcomes :
                       CASE o = "skipped" /\ probed /\ exists ->
                              /\ upload_success_count' = upload_success_count + 1
                              /\ log' = done /\ idx' = idx + 1 /\ attempt' = 0
                              /\ UNCHANGED <<total_fail_count, pc, remote_vars>>
                         [] o = "stored" /\ (probed => ~exists) ->
                              /\ upload_success_count' = upload_success_count + 1
                              /\ log' = done /\ idx' = idx + 1 /\ attempt' = 0
                              /\ remote_files' = remote_files \cup {remote_file}
                              /\ replaced' = IF exists THEN replaced \cup {remote_file}
                                             ELSE replaced
                              /\ UNCHANGED <<total_fail_count, pc>>
                         [] o = "exception" /\ attempt < Retries - 1 ->
                              /\ attempt' = attempt + 1
                              /\ UNCHANGED <<upload_success_count, total_fail_count,
                                             log, idx, pc, remote_vars>>
                         [] o = "exception" /\ attempt >= Retries - 1 ->
                              /\ total_fail_count' = total_fail_count + 1
                              /\ log' = done /\ idx' = idx + 1 /\ attempt' = 0
                              /\ UNCHANGED <<upload_success_count, pc, remote_vars>>
                         [] OTHER -> FALSE
       ELSE /\ pc' = PhaseAfter("upload") /\ idx' = 1
            /\ UNCHANGED <<upload_success_count, total_fail_count, log, attempt,
                           remote_vars>>
    /\ UNCHANGED <<cfg_vars, plan_vars, delete_success_count, ftp_vars, deploy_log,
                   pending, result, save_calls, clear_results, applied, log_at_start,
                   srv_vars, unit_vars>>

\* a deploy() whose test of the failure count is inverted
SummaryInvertedTest ==
    /\ pc = "summary"
    /\ IF total_fail_count # 0
       THEN /\ save_calls' = save_calls + 1
            /\ deploy_log' = SaveDeployCommit(app_name, current_commit)
            /\ pending' = "True"
       ELSE /\ pending' = "False"
            /\ UNCHANGED <<deploy_log, save_calls>>
    /\ pc' = "finally" /\ applied' = TRUE
    /\ UNCHANGED <<cfg_vars, plan_vars, count_vars, ftp_vars, idx, attempt, result,
                   clear_results, log, log_at_start, remote_vars, srv_vars, unit_vars>>

\* a deploy() that records the revision whatever the failure count is
SummaryAlwaysSave ==
    /\ pc = "summary"
    /\ save_calls' = save_calls + 1
    /\ deploy_log' = SaveDeployCommit(app_name, current_commit)
    /\ pending' = IF total_fail_count = 0 THEN "True" ELSE "False"
    /\ pc' = "finally" /\ applied' = TRUE
    /\ UNCHANGED <<cfg_vars, plan_vars, count_vars, ftp_vars, idx, attempt, result,
                   clear_results, log, log_at_start, remote_vars, srv_vars, unit_vars>>

\* the end of the try block: the record is written when nothing failed, and
\* the return value is total_fail_count == 0
Summary ==
    /\ pc = "summary"
    /\ IF total_fail_count = 0
       THEN /\ save_calls' = save_calls + 1
            /\ deploy_log' = SaveDeployCommit(app_name, current_commit)
            /\ pending' = "True"
       ELSE /\ pending' = "False"
            /\ UNCHANGED <<deploy_log, save_calls>>
    /\ pc' = "finally" /\ applied' = TRUE
    /\ UNCHANGED <<cfg_vars, plan_vars, count_vars, ftp_vars, idx, attempt, result,
                   clear_results, log, log_at_start, remote_vars, srv_vars, unit_vars>>

\* a finally block that is only reached when the try block did not raise
FinallyOnReturnOnly ==
    /\ pc = "finally"
    /\ IF pending = "raised"
       THEN UNCHANGED <<ftp, quit_calls>>
       ELSE ftp' = "closed" /\ quit_calls' = quit_calls + 1
    /\ result' = pending /\ pc' = "done"
    /\ UNCHANGED <<cfg_vars, plan_vars, count_vars, connect_calls, deploy_log, idx,
                   attempt, pending, save_calls, clear_results, log, applied,
                   log_at_start, remote_vars, srv_vars, unit_vars>>

\* the finally block: ftp.quit(), then deploy() returns or re-raises
Finally ==
    /\ pc = "finally"
    /\ ftp' = "closed" /\ quit_calls' = quit_calls + 1
    /\ result' = pending /\ pc' = "done"
    /\ UNCHANGED <<cfg_vars, plan_vars, count_vars, connect_calls, deploy_log, idx,
                   attempt, pending, save_calls, clear_results, log, applied,
                   log_at_start, remote_vars, srv_vars, unit_vars>>

\* save_deploy_commit raises while it rewrites deploy_history.json, in the
\* try block: the exception leaves deploy() through the finally block
SummaryWriteFails ==
    /\ pc = "summary" /\ total_fail_count = 0
    /\ save_calls' = save_calls + 1
    /\ pending' = "raised"
    /\ pc' = "finally" /\ applied' = TRUE
    /\ UNCHANGED <<cfg_vars, plan_vars, count_vars, ftp_vars, deploy_log, idx, attempt,
                   result, clear_results, log, log_at_start, remote_vars, srv_vars, unit_vars>>

\* save_deploy_commit raises in the exit of deploy() with nothing to do
PlanWriteFails ==
    /\ pc = "plan"
    /\ files_to_upload_list = <<>> /\ files_to_delete_list = <<>> /\ dirs_to_clear = <<>>
    /\ last_deploy_commit # current_commit
    /\ save_calls' = save_calls + 1
    /\ pc' = "done" /\ result' = "raised"
    /\ UNCHANGED <<cfg_vars, plan_vars, count_vars, ftp_vars, deploy_log, idx, attempt,
                   pending, clear_results, log, applied, log_at_start, remote_vars, srv_vars, unit_vars>>

\* one deploy() call; writing deploy_history.json succeeds
Next ==
    \/ Validate
    \/ GetCurrentCommit
    \/ CheckLast
    \/ ResolveChanges
    \/ Merge
    \/ Plan
    \/ ConnectFtp
    \/ ClearStep
    \/ DeleteStep
    \/ UploadStep
    \/ Summary
    \/ Finally

Spec == Init /\ [][Next]_vars

\* one deploy() call; writing deploy_history.json may raise
NextFault ==
    \/ Next
    \/ SummaryWriteFails
    \/ PlanWriteFails

SpecFault == Init /\ [][NextFault]_vars

\* ------------------------------------- get_changed_files on its own
\* lines a `git diff --name-status` answer is drawn from
DiffLines == { <<st_A, a_js>>, <<st_M, k_log>>, <<st_D, c_x>>, <<st_D, k_log>>,
               <<st_R, c2_y, a_js>>, <<st_R, k_log, c_x>>, <<>> }

\* lines a `git ls-files` answer is drawn from
LsLines == { <<a_js>>, <<k_log>>, <<c2_y>>, <<>> }

\* entries exclude_patterns is drawn from
PatternPool == {star_log, dot_js, c2, star}

\* the state when get_changed_files(local_path, from_commit) is called
InitResolve ==
    /\ exclude_patterns \in SeqsUpTo(PatternPool, MaxPatterns)
    /\ \E fc \in {None} \cup Revs :
          /\ from_commit = fc
          /\ git_query = IF fc # None THEN "diff" ELSE "ls-files"
          /\ git_stdout \in SeqsUpTo(IF fc # None THEN DiffLines ELSE LsLines, MaxLines)
    /\ pc = "call"
    /\ app_name = "app1" /\ all = FALSE /\ dry_run = FALSE /\ overwrite = TRUE
    /\ always_deploy_files = <<>> /\ path_state = "repo" /\ head = "r2"
    /\ local_files = {} /\ local_dirs = {}
    /\ deploy_log = [a \in Apps |-> NoRecord] /\ log_at_start = deploy_log
    /\ current_commit = None /\ last_deploy_commit = None
    /\ changes = [upload |-> <<>>, delete |-> <<>>]
    /\ files_to_upload = {} /\ files_to_delete = {} /\ dirs_to_clear = <<>>
    /\ files_to_upload_list = <<>> /\ files_to_delete_list = <<>>
    /\ idx = 0 /\ attempt = 0
    /\ upload_success_count = 0 /\ delete_success_count = 0 /\ total_fail_count = 0
    /\ pending = None /\ result = None
    /\ ftp = "none" /\ connect_calls = 0 /\ quit_calls = 0 /\ save_calls = 0
    /\ clear_results = <<>> /\ log = <<>> /\ applied = FALSE
    /\ IdleRemote /\ IdleServer
    /\ IdleStore /\ IdleFilter /\ IdleMain

\* get_changed_files returns
CallGetChangedFiles ==
    /\ pc = "call"
    /\ changes' = GetChangedFiles(git_stdout, from_commit, exclude_patterns)
    /\ pc' = "returned"
    /\ UNCHANGED <<cfg_vars, current_commit, last_deploy_commit, from_commit,
                   files_to_upload, files_to_delete, dirs_to_clear, files_to_upload_list,
                   files_to_delete_list, git_query, git_stdout, count_vars, ftp_vars,
                   deploy_log, idx, attempt, pending, result, save_calls, clear_results,
                   log, applied, log_at_start, remote_vars, srv_vars, unit_vars>>

NextResolve == CallGetChangedFiles

SpecResolve == InitResolve /\ [][NextResolve]_vars

\* ------------------------------------- the always-sync merge on its own
\* paths a resolved change-set is drawn from
MergePaths == {a_js, c_x, c2_y, k_log}

\* always_deploy_files entries: a directory written two ways, and a file
MergeAlwaysPool == {c_slash, c_dir, k_log}

\* the state of deploy() when get_changed_files has returned: the two sets
\* hold no excluded path and share no path (a diff names a path once)
InitMerge ==
    /\ exclude_patterns \in {<<>>, <<star_log>>, <<star_log, c_dir>>}
    /\ always_deploy_files \in SeqsUpTo(MergeAlwaysPool, MaxAlways)
    /\ local_files \in SUBSET WorkFiles
    /\ local_dirs \in {ParentDirs(local_files) \cup d : d \in SUBSET WorkDirs}
    /\ \E up \in SUBSET MergePaths, del \in SUBSET MergePaths :
          /\ up \cap del = {}
          /\ FilterFiles(Sorted(up \cup del), exclude_patterns) = Sorted(up \cup del)
          /\ files_to_upload = up /\ files_to_delete = del
          /\ changes = [upload |-> Sorted(up), delete |-> Sorted(del)]
    /\ pc = "merge"
    /\ app_name = "app1" /\ all = FALSE /\ dry_run = FALSE /\ overwrite = TRUE
    /\ path_state = "repo" /\ head = "r2"
    /\ deploy_log = [a \in Apps |-> Record("r1", "t0")] /\ log_at_start = deploy_log
    /\ current_commit = "r2" /\ last_deploy_commit = "r1" /\ from_commit = "r1"
    /\ git_query = "diff" /\ git_stdout = <<>>
    /\ dirs_to_clear = <<>>
    /\ files_to_upload_list = <<>> /\ files_to_delete_list = <<>>
    /\ idx = 0 /\ attempt = 0
    /\ upload_success_count = 0 /\ delete_success_count = 0 /\ total_fail_count = 0
    /\ pending = None /\ result = None
    /\ ftp = "none" /\ connect_calls = 0 /\ quit_calls = 0 /\ save_calls = 0
    /\ clear_results = <<>> /\ log = <<>> /\ applied = FALSE
    /\ IdleRemote /\ IdleServer
    /\ IdleStore /\ IdleFilter /\ IdleMain

NextMerge == Merge

SpecMerge == InitMerge /\ [][NextMerge]_vars

\* --------------- clear_remote_directory and delete_remote_file on a server
\* The server keeps a tree of directories and files; a path is the tuple of
\* its names and <<>> is the root. It answers every command (no transport
\* failure): a command on a missing target is refused with a 550 reply, the
\* DELE of a file of srv_denied is refused with deny_code.
SrvDirPool == { <<"s">>, <<"s", "c">>, <<"s", "c", "d">> }
SrvFilePool == { <<"s", "k">>, <<"s", "c", "x">>, <<"s", "c", "d", "y">>,
                 <<"s", "c", "d", "d">> }

\* the parent of a path; the root is its own parent
Parent(p) == IF p = <<>> THEN <<>> ELSE SubSeq(p, 1, Len(p) - 1)

\* the paths of S strictly below dir
Below(dir, S) == {q \in S : Len(q) > Len(dir) /\ SubSeq(q, 1, Len(dir)) = dir}

IsServerDir(p) == p = <<>> \/ p \in srv_dirs

\* ftp.nlst(): the names in the working directory
Nlst(dir) == {q[Len(q)] : q \in {r \in srv_dirs \cup srv_files : Parent(r) = dir /\ r # <<>>}}

\* the reply to DELE target: "ok" (the file is removed) or the code of the
\* error_perm
DeleReply(target) ==
    IF target \in srv_denied THEN deny_code
    ELSE IF target \in srv_files THEN "ok"
    ELSE "550"

\* a test of "550" in str(e) that never holds
IsMissingReplyNever(code) == FALSE

\* "550" in str(e)
IsMissingReply(code) == code = "550"

\* a frame of the recursion: the loop over ftp.nlst() of clear_remote_directory
\* (kind "top") or of one _clear_dir_recursively(name) call (kind "rec")
Frame(kind, name, todo) == [kind |-> kind, name |-> name, todo |-> todo]

Pop(stk) == SubSeq(stk, 1, Len(stk) - 1)
Top(stk) == stk[Len(stk)]

\* the state when clear_remote_directory(remote_dir) or
\* delete_remote_file(remote_file) is called by the loops of deploy()
InitFtp ==
    /\ srv_dirs \in {D \in SUBSET SrvDirPool : \A p \in D : Parent(p) = <<>> \/ Parent(p) \in D}
    /\ srv_files \in {F \in SUBSET SrvFilePool : \A p \in F : Parent(p) \in srv_dirs}
    /\ srv_denied \in SUBSET srv_files
    /\ deny_code \in {"550", "553"}
    /\ cwd \in {p \in {<<>>, <<"s">>} : IsServerDir(p)}
    /\ call \in {[fn |-> "clear_remote_directory", arg |-> <<"s", "c">>]}
                  \cup {[fn |-> "delete_remote_file", arg |-> f] :
                           f \in {<<"s", "k">>, <<"s", "c", "x">>}}
    /\ pc = IF call.fn = "clear_remote_directory" THEN "c_begin" ELSE "d_try"
    /\ original_cwd = <<>> /\ stack = <<>> /\ exc = None /\ ret = None /\ sent = <<>>
    /\ sleeps = 0 /\ ensured = FALSE
    /\ srv_at_start = [dirs |-> srv_dirs, files |-> srv_files, cwd |-> cwd]
    /\ app_name = "app1" /\ all = FALSE /\ dry_run = FALSE /\ overwrite = TRUE
    /\ exclude_patterns = <<>> /\ always_deploy_files = <<>>
    /\ path_state = "repo" /\ head = "r2" /\ local_files = {} /\ local_dirs = {}
    /\ deploy_log = [a \in Apps |-> NoRecord] /\ log_at_start = deploy_log
    /\ IdleRun /\ IdleRemote
    /\ IdleStore /\ IdleFilter /\ IdleMain

\* what a Remote Reconciler call leaves alone of deploy()
caller_vars == <<cfg_vars, plan_vars, ftp_vars, deploy_log, idx, result, save_calls,
                 clear_results, log, applied, log_at_start, remote_vars, unit_vars>>

\* what clear_remote_directory returns from its error_perm handler
ClearResult(code) == IF IsMissingReply(code) THEN "True" ELSE "False"

\* clear_remote_directory up to its loop: pwd, cwd(remote_dir), nlst
ClearBegin ==
    /\ pc = "c_begin"
    /\ original_cwd' = cwd
    /\ IF IsServerDir(call.arg)
       THEN /\ cwd' = call.arg
            /\ stack' = <<Frame("top", "", Nlst(call.arg))>>
            /\ sent' = sent \o <<"PWD", "CWD", "NLST">>
            /\ pc' = "c_loop" /\ pending' = pending
       ELSE /\ sent' = sent \o <<"PWD", "CWD">>
            /\ pending' = ClearResult("550") /\ pc' = "c_finally"
            /\ UNCHANGED <<cwd, stack>>
    /\ UNCHANGED <<caller_vars, count_vars, attempt, srv_dirs, srv_files, srv_denied,
                   deny_code, call, exc, ret, srv_at_start, sleeps, ensured>>

\* one pass of a `for name in ftp.nlst()` loop: _clear_dir_recursively(name)
\* starts; cwd(name) enters a directory and lists it, or is refused and the
\* handler sends DELE name
ClearLoop ==
    /\ pc = "c_loop" /\ exc = None /\ stack # <<>>
    /\ \E name \in Top(stack).todo :
          LET target == cwd \o <<name>>
              rest == [stack EXCEPT ![Len(stack)].todo = @ \ {name}]
          IN  IF target \in srv_dirs
              THEN /\ cwd' = target
                   /\ stack' = Append(rest, Frame("rec", name, Nlst(target)))
                   /\ sent' = sent \o <<"CWD", "NLST">>
                   /\ UNCHANGED <<srv_files, exc>>
              ELSE /\ stack' = rest
                   /\ sent' = sent \o <<"CWD", "DELE">>
                   /\ IF DeleReply(target) = "ok"
                      THEN srv_files' = srv_files \ {target} /\ exc' = exc
                      ELSE srv_files' = srv_files /\ exc' = DeleReply(target)
                   /\ cwd' = cwd
    /\ UNCHANGED <<caller_vars, count_vars, attempt, pending, pc, srv_dirs, srv_denied,
                   deny_code, original_cwd, call, ret, srv_at_start, sleeps, ensured>>

\* a loop has run out of names. In _clear_dir_recursively: cwd('..') and
\* rmd(path), and DELE path from the handler when the rmd is refused. In
\* clear_remote_directory: return True
ClearUnwind ==
    /\ pc = "c_loop" /\ exc = None /\ stack # <<>> /\ Top(stack).todo = {}
    /\ IF Top(stack).kind = "top"
       THEN /\ pending' = "True" /\ pc' = "c_finally" /\ stack' = <<>>
            /\ UNCHANGED <<cwd, srv_dirs, srv_files, exc, sent>>
       ELSE LET up == Parent(cwd)
                target == up \o <<Top(stack).name>>
            IN  /\ cwd' = up /\ stack' = Pop(stack)
                /\ IF target \in srv_dirs /\ Below(target, srv_dirs \cup srv_files) = {}
                   THEN /\ srv_dirs' = srv_dirs \ {target}
                        /\ sent' = sent \o <<"CWD", "RMD">>
                        /\ UNCHANGED <<srv_files, exc>>
                   ELSE /\ sent' = sent \o <<"CWD", "RMD", "DELE">>
                        /\ srv_dirs' = srv_dirs
                        /\ IF DeleReply(target) = "ok"
                           THEN srv_files' = srv_files \ {target} /\ exc' = exc
                           ELSE srv_files' = srv_files /\ exc' = DeleReply(target)
                /\ UNCHANGED <<pending, pc>>
    /\ UNCHANGED <<caller_vars, count_vars, attempt, srv_denied, deny_code, original_cwd,
                   call, ret, srv_at_start, sleeps, ensured>>

\* an error_perm arrives in the try block of the caller. The handler of
\* _clear_dir_recursively sends DELE path, in whatever directory the session
\* is; the handler of clear_remote_directory turns the reply into its result
ClearCatch ==
    /\ pc = "c_loop" /\ exc # None /\ stack # <<>>
    /\ IF Top(stack).kind = "top"
       THEN /\ pending' = ClearResult(exc) /\ pc' = "c_finally"
            /\ stack' = <<>> /\ exc' = None
            /\ UNCHANGED <<srv_files, sent>>
       ELSE LET target == cwd \o <<Top(stack).name>>
            IN  /\ stack' = Pop(stack)
                /\ sent' = Append(sent, "DELE")
                /\ IF DeleReply(target) = "ok"
                   THEN srv_files' = srv_files \ {target} /\ exc' = None
                   ELSE srv_files' = srv_files /\ exc' = DeleReply(target)
                /\ UNCHANGED <<pending, pc>>
    /\ UNCHANGED <<caller_vars, count_vars, attempt, cwd, srv_dirs, srv_denied, deny_code,
                   original_cwd, call, ret, srv_at_start, sleeps, ensured>>

\* a finally block that leaves the session where the walk ended
ClearFinallyNoRestore ==
    /\ pc = "c_finally"
    /\ ret' = pending
    /\ pc' = "c_done"
    /\ UNCHANGED <<caller_vars, count_vars, attempt, pending, srv_dirs, srv_files, cwd,
                   srv_denied, deny_code, original_cwd, call, stack, exc, srv_at_start,
                   sent, sleeps, ensured>>

\* the finally block of clear_remote_directory: cwd(original_cwd), then the
\* result is returned (or the error_perm of that cwd leaves the call)
ClearFinally ==
    /\ pc = "c_finally"
    /\ sent' = Append(sent, "CWD")
    /\ IF IsServerDir(original_cwd)
       THEN cwd' = original_cwd /\ ret' = pending
       ELSE cwd' = cwd /\ ret' = "raised"
    /\ pc' = "c_done"
    /\ UNCHANGED <<caller_vars, count_vars, attempt, pending, srv_dirs, srv_files,
                   srv_denied, deny_code, original_cwd, call, stack, exc, srv_at_start, sleeps, ensured>>

\* one attempt of delete_remote_file
DeleteAttempt ==
    /\ pc = "d_try"
    /\ sent' = Append(sent, "DELE")
    /\ LET reply == DeleReply(call.arg)
       IN  IF reply = "ok"
           THEN /\ srv_files' = srv_files \ {call.arg}
                /\ ret' = "True" /\ pc' = "d_done" /\ attempt' = attempt
           ELSE /\ srv_files' = srv_files
                /\ IF IsMissingReply(reply)
                   THEN ret' = "True" /\ pc' = "d_done" /\ attempt' = attempt
                   ELSE IF attempt < Retries - 1
                   THEN ret' = ret /\ pc' = pc /\ attempt' = attempt + 1
                   ELSE ret' = "False" /\ pc' = "d_done" /\ attempt' = attempt
    /\ sleeps' = IF pc' = "d_try" THEN sleeps + 1 ELSE sleeps
    /\ UNCHANGED <<caller_vars, count_vars, pending, srv_dirs, srv_denied, deny_code,
                   cwd, original_cwd, call, stack, exc, srv_at_start, ensured>>

\* what the loops of deploy() do with the result: the result of a delete is
\* counted, the result of a clear is dropped
Account ==
    /\ pc \in {"c_done", "d_done"}
    /\ pc' = "accounted"
    /\ IF call.fn = "delete_remote_file"
       THEN IF ret = "True"
            THEN /\ delete_success_count' = delete_success_count + 1
                 /\ UNCHANGED <<upload_success_count, total_fail_count>>
            ELSE /\ total_fail_count' = total_fail_count + 1
                 /\ UNCHANGED <<upload_success_count, delete_success_count>>
       ELSE UNCHANGED count_vars
    /\ UNCHANGED <<caller_vars, attempt, pending, srv_vars>>

NextFtp ==
    \/ ClearBegin
    \/ ClearLoop
    \/ ClearUnwind
    \/ ClearCatch
    \/ ClearFinally
    \/ DeleteAttempt
    \/ Account

SpecFtp == InitFtp /\ [][NextFtp]_vars

\* ------------------- ensure_remote_directory and upload_file on a server
\* The same server; srv_denied now holds the paths it refuses to create
\* (MKD, STOR) or to delete. A file may sit where a directory is wanted.
UpFilePool == { <<"k">>, <<"s", "c">>, <<"s", "c", "x">>, <<"s", "c", "d", "y">> }

\* the trees the server may hold
ServerTrees ==
    {t \in [dirs : SUBSET SrvDirPool, files : SUBSET UpFilePool] :
        /\ \A p \in t.dirs : Parent(p) = <<>> \/ Parent(p) \in t.dirs
        /\ \A p \in t.files : p \notin t.dirs /\ (Parent(p) = <<>> \/ Parent(p) \in t.dirs)}

\* the reply to MKD p and to STOR p: TRUE when the server carries it out
MkdOk(p) == IsServerDir(Parent(p)) /\ p \notin srv_dirs \cup srv_files /\ p \notin srv_denied
StorOk(p) == IsServerDir(Parent(p)) /\ p \notin srv_dirs /\ p \notin srv_denied

\* the remote_path ensure_remote_directory works on: its argument, or
\* os.path.dirname(remote_file) when upload_file calls it
EnsurePath == IF call.fn = "upload_file" THEN Parent(call.arg) ELSE call.arg

\* where control goes when ensure_remote_directory returns
EnsureExit == IF call.fn = "upload_file" THEN "u_probe" ELSE "e_done"

\* what the calls of this section leave alone
upload_outer_vars == <<cfg_vars, plan_vars, ftp_vars, deploy_log, result, save_calls,
                       clear_results, log, applied, log_at_start, remote_vars, unit_vars,
                       count_vars, pending, srv_denied, deny_code, original_cwd, call,
                       stack, exc, srv_at_start>>

\* the state when ensure_remote_directory(remote_path) is called
InitEnsure ==
    /\ \E t \in ServerTrees : srv_dirs = t.dirs /\ srv_files = t.files
    /\ srv_denied \in SUBSET (SrvDirPool \ srv_dirs)
    /\ deny_code = "550"
    /\ cwd \in {p \in {<<>>, <<"s">>} : IsServerDir(p)}
    /\ call \in {[fn |-> "ensure_remote_directory", arg |-> p] :
                    p \in {<<"s", "c">>, <<"s", "c", "d">>}}
    /\ pc = "e_begin"
    /\ original_cwd = <<>> /\ stack = <<>> /\ exc = None /\ ret = None /\ sent = <<>>
    /\ sleeps = 0 /\ ensured = FALSE
    /\ srv_at_start = [dirs |-> srv_dirs, files |-> srv_files, cwd |-> cwd]
    /\ app_name = "app1" /\ all = FALSE /\ dry_run = FALSE /\ overwrite = TRUE
    /\ exclude_patterns = <<>> /\ always_deploy_files = <<>>
    /\ path_state = "repo" /\ head = "r2" /\ local_files = {} /\ local_dirs = {}
    /\ deploy_log = [a \in Apps |-> NoRecord] /\ log_at_start = deploy_log
    /\ IdleRun /\ IdleRemote
    /\ IdleStore /\ IdleFilter /\ IdleMain

\* ensure_remote_directory up to its loop: cwd(remote_path) succeeds and the
\* call returns, or is refused and the walk over the segments starts
EnsureBegin ==
    /\ pc = "e_begin"
    /\ sent' = Append(sent, "CWD")
    /\ IF IsServerDir(EnsurePath)
       THEN cwd' = EnsurePath /\ ensured' = TRUE /\ pc' = EnsureExit /\ idx' = idx
       ELSE cwd' = cwd /\ ensured' = ensured /\ pc' = "e_loop" /\ idx' = 1
    /\ ret' = IF pc' = "e_done" THEN "returned" ELSE ret
    /\ UNCHANGED <<upload_outer_vars, attempt, srv_dirs, srv_files, sleeps>>

\* a walk that goes on to the deeper segments after a refused MKD
EnsureSegmentNoBreak ==
    /\ pc = "e_loop"
    /\ LET current_path == SubSeq(EnsurePath, 1, idx)
           last == idx = Len(EnsurePath)
       IN  /\ IF IsServerDir(current_path)
              THEN cwd' = current_path /\ srv_dirs' = srv_dirs
                   /\ sent' = Append(sent, "CWD")
              ELSE /\ cwd' = cwd /\ sent' = sent \o <<"CWD", "MKD">>
                   /\ srv_dirs' = IF MkdOk(current_path)
                                  THEN srv_dirs \cup {current_path} ELSE srv_dirs
           /\ IF last
              THEN ensured' = TRUE /\ pc' = EnsureExit /\ idx' = idx
              ELSE ensured' = ensured /\ pc' = pc /\ idx' = idx + 1
    /\ ret' = IF pc' = "e_done" THEN "returned" ELSE ret
    /\ UNCHANGED <<upload_outer_vars, attempt, srv_files, sleeps>>

\* one pass of `for directory in dirs`: cwd(current_path), and mkd(current_path)
\* when that is refused; a refused mkd ends the loop
EnsureSegment ==
    /\ pc = "e_loop"
    /\ LET current_path == SubSeq(EnsurePath, 1, idx)
           exists == IsServerDir(current_path)
           made == ~exists /\ MkdOk(current_path)
           last == idx = Len(EnsurePath) \/ (~exists /\ ~made)
       IN  /\ IF exists
              THEN cwd' = current_path /\ srv_dirs' = srv_dirs
                   /\ sent' = Append(sent, "CWD")
              ELSE /\ cwd' = cwd /\ sent' = sent \o <<"CWD", "MKD">>
                   /\ srv_dirs' = IF made THEN srv_dirs \cup {current_path} ELSE srv_dirs
           /\ IF last
              THEN ensured' = TRUE /\ pc' = EnsureExit /\ idx' = idx
              ELSE ensured' = ensured /\ pc' = pc /\ idx' = idx + 1
    /\ ret' = IF pc' = "e_done" THEN "returned" ELSE ret
    /\ UNCHANGED <<upload_outer_vars, attempt, srv_files, sleeps>>

NextEnsure ==
    \/ EnsureBegin
    \/ EnsureSegment

SpecEnsure == InitEnsure /\ [][NextEnsure]_vars

\* ------- upload_file and delete_remote_file on a connection that may fail
\* Besides refusing a command (error_perm) the session may now fail to carry
\* one out: a timeout, a reset connection, a 4xx reply. Such an exception is
\* no error_perm.
InitRetry ==
    /\ \E t \in ServerTrees : srv_dirs = t.dirs /\ srv_files = t.files
    /\ call \in {[fn |-> "upload_file", arg |-> f] :
                    f \in {<<"k">>, <<"s", "c", "x">>, <<"s", "c", "d", "y">>}}
                \cup {[fn |-> "delete_remote_file", arg |-> f] :
                         f \in {<<"k">>, <<"s", "c", "x">>}}
    /\ srv_denied \in IF call.fn = "upload_file"
                      THEN SUBSET ((SrvDirPool \ srv_dirs) \cup {call.arg})
                      ELSE SUBSET (srv_files \cap {call.arg})
    /\ deny_code \in {"550", "553"}
    /\ cwd = <<>>
    /\ overwrite \in BOOLEAN
    /\ pc = IF call.fn = "delete_remote_file" THEN "d_try"
            ELSE IF Parent(call.arg) # <<>> THEN "e_begin" ELSE "u_probe"
    /\ original_cwd = <<>> /\ stack = <<>> /\ exc = None /\ ret = None /\ sent = <<>>
    /\ sleeps = 0 /\ ensured = FALSE
    /\ srv_at_start = [dirs |-> srv_dirs, files |-> srv_files, cwd |-> cwd]
    /\ app_name = "app1" /\ all = FALSE /\ dry_run = FALSE
    /\ exclude_patterns = <<>> /\ always_deploy_files = <<>>
    /\ path_state = "repo" /\ head = "r2" /\ local_files = {} /\ local_dirs = {}
    /\ deploy_log = [a \in Apps |-> NoRecord] /\ log_at_start = deploy_log
    /\ IdleRun /\ IdleRemote
    /\ IdleStore /\ IdleFilter /\ IdleMain

\* the except clause of upload_file: sleep and go round again, or leave the
\* loop and return False. The next attempt goes straight to the STOR
UploadFailed ==
    IF attempt < Retries - 1
    THEN attempt' = attempt + 1 /\ sleeps' = sleeps + 1 /\ pc' = "u_store" /\ ret' = ret
    ELSE attempt' = attempt /\ sleeps' = sleeps /\ pc' = "u_done" /\ ret' = "False"

\* the overwrite check of the first attempt
UploadProbe ==
    /\ pc = "u_probe"
    /\ IF overwrite
       THEN sent' = sent /\ pc' = "u_store" /\ ret' = ret
       ELSE /\ sent' = Append(sent, "SIZE")
            /\ IF call.arg \in srv_files
               THEN pc' = "u_done" /\ ret' = "True"
               ELSE pc' = "u_store" /\ ret' = ret
    /\ UNCHANGED <<upload_outer_vars, idx, attempt, srv_dirs, srv_files, cwd, sleeps,
                   ensured>>

\* ftp.storbinary: the file is stored and the call returns True, or the
\* server refuses and the except clause takes over
UploadStore ==
    /\ pc = "u_store"
    /\ sent' = Append(sent, "STOR")
    /\ IF StorOk(call.arg)
       THEN /\ srv_files' = srv_files \cup {call.arg}
            /\ pc' = "u_done" /\ ret' = "True"
            /\ UNCHANGED <<attempt, sleeps>>
       ELSE srv_files' = srv_files /\ UploadFailed
    /\ UNCHANGED <<upload_outer_vars, idx, srv_dirs, cwd, ensured>>

\* a command of upload_file (CWD or MKD of ensure_remote_directory, SIZE,
\* STOR) or its open(local_file) raises an exception that is no error_perm
UploadRaises ==
    /\ call.fn = "upload_file"
    /\ pc \in {"e_begin", "e_loop", "u_store"} \/ (pc = "u_probe" /\ ~overwrite)
    /\ UploadFailed
    /\ UNCHANGED <<upload_outer_vars, idx, srv_dirs, srv_files, cwd, sent, ensured>>

\* ftp.delete raises an exception that is no error_perm: nothing in
\* delete_remote_file catches it
DeleteRaises ==
    /\ pc = "d_try"
    /\ ret' = "raised" /\ pc' = "d_done"
    /\ UNCHANGED <<upload_outer_vars, idx, attempt, srv_dirs, srv_files, cwd, sent,
                   sleeps, ensured>>

NextRetry ==
    \/ EnsureBegin
    \/ EnsureSegment
    \/ UploadProbe
    \/ UploadStore
    \/ UploadRaises
    \/ DeleteAttempt
    \/ DeleteRaises

SpecRetry == InitRetry /\ [][NextRetry]_vars

\* ------------------------------------------- filter_files on its own
FilterPaths == {a_js, k_log, c2_y, c_x}

\* exclude_patterns entries, the empty pattern among them
FilterPatternPool == PatternPool \cup {<<>>}

\* the state when filter_files(files) is called
InitFilter ==
    /\ filter_arg \in SeqsUpTo(FilterPaths, MaxFiles)
    /\ exclude_patterns \in SeqsUpTo(FilterPatternPool, MaxPatterns)
    /\ filtered = <<>>
    /\ pc = "call"
    /\ app_name = "app1" /\ all = FALSE /\ dry_run = FALSE /\ overwrite = TRUE
    /\ always_deploy_files = <<>> /\ path_state = "repo" /\ head = "r2"
    /\ local_files = {} /\ local_dirs = {}
    /\ deploy_log = [a \in Apps |-> NoRecord] /\ log_at_start = deploy_log
    /\ IdleRun /\ IdleRemote /\ IdleServer /\ IdleStore /\ IdleMain

\* filter_files returns
CallFilterFiles ==
    /\ pc = "call"
    /\ filtered' = FilterFiles(filter_arg, exclude_patterns)
    /\ pc' = "returned"
    /\ UNCHANGED <<cfg_vars, plan_vars, count_vars, ftp_vars, deploy_log, idx, attempt,
                   pending, result, save_calls, clear_results, log, applied, log_at_start,
                   remote_vars, srv_vars, store_vars, filter_arg, main_vars>>

NextFilter == CallFilterFiles

SpecFilter == InitFilter /\ [][NextFilter]_vars

\* ------------- get_last_deploy_commit / save_deploy_commit on their own
\* the state before a series of calls: deploy_history.json is missing, holds
\* an entry for some applications, or holds them in a text json.load rejects
\* (deploy_log is then what the text carries, ReadStore what a call sees)
InitStore ==
    /\ store_state \in {"missing", "corrupt", "ok"}
    /\ store_at_start = store_state /\ savers = <<>>
    /\ deploy_log \in IF store_state = "missing"
                      THEN {[a \in Apps |-> NoRecord]}
                      ELSE [Apps -> {NoRecord} \cup {Record(r, "t0") : r \in Revs}]
    /\ log_at_start = deploy_log
    /\ saved = [a \in Apps |-> None]
    /\ got = [app |-> None, value |-> None]
    /\ pc = "store"
    /\ app_name = "app1" /\ all = FALSE /\ dry_run = FALSE /\ overwrite = TRUE
    /\ exclude_patterns = <<>> /\ always_deploy_files = <<>>
    /\ path_state = "repo" /\ head = "r2" /\ local_files = {} /\ local_dirs = {}
    /\ IdleRun /\ IdleRemote /\ IdleServer /\ IdleFilter /\ IdleMain

\* save_deploy_commit(app, r) returns
CallSaveDeployCommit ==
    /\ pc = "store" /\ save_calls < MaxSaves
    /\ \E app \in Apps, r \in Revs :
          /\ deploy_log' = SaveDeployCommit(app, r)
          /\ saved' = [saved EXCEPT ![app] = r]
    /\ store_state' = "ok"
    /\ save_calls' = save_calls + 1
    /\ got' = [app |-> None, value |-> None]
    /\ UNCHANGED <<cfg_vars, plan_vars, count_vars, ftp_vars, pc, idx, attempt, pending,
                   result, clear_results, log, applied, log_at_start, remote_vars,
                   srv_vars, store_at_start, savers, filter_vars, main_vars>>

\* get_last_deploy_commit(app) returns
CallGetLastDeployCommit ==
    /\ pc = "store"
    /\ \E app \in Apps : got' = [app |-> app, value |-> GetLastDeployCommit(app)]
    /\ UNCHANGED <<cfg_vars, plan_vars, count_vars, ftp_vars, deploy_log, pc, idx, attempt,
                   pending, result, save_calls, clear_results, log, applied, log_at_start,
                   remote_vars, srv_vars, store_state, saved, store_at_start, savers,
                   filter_vars, main_vars>>

NextStore ==
    \/ CallSaveDeployCommit
    \/ CallGetLastDeployCommit

SpecStore == InitStore /\ [][NextStore]_vars

\* ------------------- two save_deploy_commit calls on the same store file
\* Two runs (two processes in the same directory, or two threads) each save
\* the revision of their application. A call is three steps: the read of
\* lines 75-81, the open(..., 'w') of line 88 that empties the file, and the
\* json.dump of line 89. Nothing in the code locks the file.
Savers == 1..2

InitRace ==
    /\ store_state \in {"missing", "ok"}
    /\ store_at_start = store_state
    /\ deploy_log \in IF store_state = "missing"
                      THEN {[a \in Apps |-> NoRecord]}
                      ELSE [Apps -> {NoRecord, Record("r1", "t0")}]
    /\ log_at_start = deploy_log
    /\ \E r \in [Savers -> Revs] :
          savers = [p \in Savers |->
                       [pc |-> "read", app |-> IF p = 1 THEN "app1" ELSE "app2",
                        commit_hash |-> r[p], deploy_log |-> [a \in Apps |-> NoRecord]]]
    /\ saved = [a \in Apps |-> None]
    /\ got = [app |-> None, value |-> None]
    /\ pc = "store"
    /\ app_name = "app1" /\ all = FALSE /\ dry_run = FALSE /\ overwrite = TRUE
    /\ exclude_patterns = <<>> /\ always_deploy_files = <<>>
    /\ path_state = "repo" /\ head = "r2" /\ local_files = {} /\ local_dirs = {}
    /\ IdleRun /\ IdleRemote /\ IdleServer /\ IdleFilter /\ IdleMain

race_outer_vars == <<cfg_vars, plan_vars, count_vars, ftp_vars, pc, idx, attempt, pending,
                     result, save_calls, clear_results, log, applied, log_at_start,
                     remote_vars, srv_vars, saved, got, store_at_start, filter_vars,
                     main_vars>>

\* lines 74-85: the call loads the file, or starts from {} when the file is
\* missing or cannot be loaded, and sets its application's entry
SaverRead(p) ==
    /\ savers[p].pc = "read"
    /\ savers' = [savers EXCEPT ![p].pc = "open",
                                ![p].deploy_log = SaveDeployCommit(savers[p].app,
                                                                   savers[p].commit_hash)]
    /\ UNCHANGED <<race_outer_vars, deploy_log, store_state>>

\* line 88: open(self.deploy_log_file, 'w') leaves an empty file
SaverOpen(p) ==
    /\ savers[p].pc = "open"
    /\ savers' = [savers EXCEPT ![p].pc = "dump"]
    /\ store_state' = "corrupt"
    /\ deploy_log' = [a \in Apps |-> NoRecord]
    /\ UNCHANGED race_outer_vars

\* line 89: json.dump(deploy_log, f) writes the whole mapping
SaverDump(p) ==
    /\ savers[p].pc = "dump"
    /\ savers' = [savers EXCEPT ![p].pc = "done"]
    /\ store_state' = "ok"
    /\ deploy_log' = savers[p].deploy_log
    /\ UNCHANGED race_outer_vars

NextRace == \E p \in Savers : SaverRead(p) \/ SaverOpen(p) \/ SaverDump(p)

SpecRace == InitRace /\ [][NextRace]_vars

\* ------------------------------------------------------------- main()
\* the process from `deploy.py [--app A] [--list] [--dry-run]` to its exit
InitMain ==
    /\ config_state \in {"missing", "invalid", "ok"}
    /\ arg_list \in BOOLEAN
    /\ app_name \in {None, "app1", "ghost"}
    /\ all = FALSE /\ dry_run \in BOOLEAN
    /\ exclude_patterns = <<star_log>>
    /\ overwrite = TRUE
    /\ always_deploy_files = <<c_slash>>
    /\ path_state \in {"nogit", "repo"}
    /\ head = "r2"
    /\ local_files = WorkFiles
    /\ local_dirs = ParentDirs(local_files)
    /\ deploy_log = [a \in Apps |-> Record("r1", "t0")]
    /\ log_at_start = deploy_log
    /\ remote_files = {} /\ replaced = {}
    /\ exit_status = None /\ init_raised = None
    /\ pc = "main"
    /\ IdleRun /\ IdleServer /\ IdleStore /\ IdleFilter

\* LolipopDeployTool(args.config): load_config runs before setup_logging, so
\* its self.logger.error(...) meets an object without that attribute
LoadConfig ==
    /\ pc = "main"
    /\ IF config_state = "ok"
       THEN pc' = "dispatch" /\ UNCHANGED <<init_raised, exit_status>>
       ELSE pc' = "exited" /\ init_raised' = "AttributeError" /\ exit_status' = 1
    /\ UNCHANGED <<cfg_vars, plan_vars, count_vars, ftp_vars, deploy_log, idx, attempt,
                   pending, result, save_calls, clear_results, log, applied, log_at_start,
                   remote_vars, srv_vars, store_vars, filter_vars, config_state, arg_list>>

\* main() between the construction and the deploy() call
MainDispatch ==
    /\ pc = "dispatch"
    /\ IF arg_list
       THEN pc' = "exited" /\ exit_status' = 0
       ELSE IF app_name = None
            THEN pc' = "exited" /\ exit_status' = 1
            ELSE pc' = "validate" /\ exit_status' = exit_status
    /\ UNCHANGED <<cfg_vars, plan_vars, count_vars, ftp_vars, deploy_log, idx, attempt,
                   pending, result, save_calls, clear_results, log, applied, log_at_start,
                   remote_vars, srv_vars, store_vars, filter_vars, config_state, arg_list,
                   init_raised>>

\* the process ends after deploy() returned or raised
MainExit ==
    /\ pc = "done" /\ exit_status = None
    /\ exit_status' = ExitStatus(result, dry_run)
    /\ pc' = "exited"
    /\ UNCHANGED <<cfg_vars, plan_vars, count_vars, ftp_vars, deploy_log, idx, attempt,
                   pending, result, save_calls, clear_results, log, applied, log_at_start,
                   remote_vars, srv_vars, store_vars, filter_vars, config_state, arg_list,
                   init_raised>>

NextMain ==
    \/ LoadConfig
    \/ MainDispatch
    \/ Next
    \/ MainExit

SpecMain == InitMain /\ [][NextMain]_vars

\* ================================================================ claims
\* what the claims mean by a path matching an exclusion pattern: a pattern
\* with a leading '*' matches a path that ends with the rest of it, any
\* other pattern matches a path that contains it
MatchesPattern(pattern, path) ==
    \/ /\ Len(pattern) > 0 /\ pattern[1] = "*"
       /\ EndsWith(path, SubSeq(pattern, 2, Len(pattern)))
    \/ /\ ~(Len(pattern) > 0 /\ pattern[1] = "*")
       /\ Contains(path, pattern)

Excluded(path) ==
    \E i \in 1..Len(exclude_patterns) : MatchesPattern(exclude_patterns[i], path)

\* the deploy run was given an application and a working tree it accepts
ValidTarget == app_name \in Apps /\ path_state = "repo"

\* the completed calls of one kind in the log
Calls(op) == {i \in 1..Len(log) : log[i].op = op}

\* C1: once an upload or a delete of a run has been counted as failed, the
\* run never writes deploy_history.json (the store stays what it was when the
\* run started) and never ends with success: it returns False, or an
\* exception of a later delete leaves deploy().
C1_FailureLeavesRecord ==
    total_fail_count > 0 =>
        /\ deploy_log = log_at_start
        /\ save_calls = 0
        /\ result # "True"
        /\ pc = "done" => result \in {"False", "raised"}

C1_Witness ==
    /\ pc = "done" /\ result = "False"
    /\ total_fail_count > 0 /\ upload_success_count > 0
    /\ log_at_start[app_name] # NoRecord

\* C2: in the log of completed calls every clear comes before every delete
\* and every delete before every upload (so nothing uploaded is deleted or
\* cleared afterwards); when the delete loop starts every directory of the
\* clear list has been cleared, and when the upload loop starts every path of
\* the delete list has had its delete_remote_file call.
OpRank(op) == CASE op = "clear" -> 1 [] op = "delete" -> 2 [] op = "upload" -> 3

C2_ClearDeleteUploadOrder ==
    /\ \A i, j \in 1..Len(log) : i < j => OpRank(log[i].op) <= OpRank(log[j].op)
    /\ pc = "clear" => Calls("delete") = {} /\ Calls("upload") = {}
    /\ pc = "delete" =>
          /\ Cardinality(Calls("clear")) = Len(dirs_to_clear)
          /\ Calls("upload") = {}
    /\ pc = "upload" =>
          /\ Cardinality(Calls("clear")) = Len(dirs_to_clear)
          /\ Cardinality(Calls("delete")) = Len(files_to_delete_list)

C2_Witness ==
    /\ pc = "done"
    /\ Calls("clear") # {} /\ Calls("delete") # {} /\ Calls("upload") # {}

\* C3: a run that got through its three loops with a failure count of zero
\* returns True, and the application's record then holds the revision
\* `git rev-parse HEAD` named when the run started.
C3_SuccessAdvancesRecord ==
    (pc = "done" /\ applied /\ total_fail_count = 0) =>
        /\ result = "True"
        /\ current_commit = head
        /\ deploy_log[app_name].last_commit = head

C3_Witness ==
    /\ pc = "done" /\ applied /\ total_fail_count = 0 /\ result = "True"
    /\ log_at_start[app_name].last_commit # head
    /\ Calls("upload") # {}

\* C4: ftp.quit() is called at most once; when deploy() has ended and
\* connect_ftp had returned a session, the session is closed and quit was
\* called exactly once, also when a clear, a delete or the write of the
\* record raised.
C4_SessionClosedOnce ==
    /\ quit_calls <= 1
    /\ quit_calls = 1 => ftp = "closed"
    /\ (pc = "done" /\ ftp \in {"open", "closed"}) => (ftp = "closed" /\ quit_calls = 1)

C4_Witness ==
    /\ pc = "done" /\ result = "raised"
    /\ applied /\ save_calls = 1
    /\ ftp = "closed" /\ quit_calls = 1

\* an always_deploy_files entry that exists below local_path
AlwaysPresent(path_str) == IsDir(path_str, local_dirs) \/ IsFile(path_str, local_files)

\* C5: a run that is no dry run and ends with success, for an application
\* with an always_deploy_files entry that exists locally, has opened a
\* session and has cleared that directory or uploaded that file.
C5_AlwaysSyncEveryRun ==
    (pc = "done" /\ result = "True" /\ ~dry_run) =>
        \A i \in 1..Len(always_deploy_files) :
            AlwaysPresent(always_deploy_files[i]) =>
                /\ connect_calls = 1
                /\ \E k \in 1..Len(log) :
                      /\ log[k].path = RemoteJoin(RemoteRoot, always_deploy_files[i])
                      /\ log[k].op = IF IsDir(always_deploy_files[i], local_dirs)
                                     THEN "clear" ELSE "upload"

C7_DryRunOpensNoSession ==
    dry_run =>
        /\ connect_calls = 0 /\ ftp = "none"
        /\ log = <<>> /\ clear_results = <<>>
        /\ (pc = "done" /\ git_query # None) => result = "True"

C7_Witness ==
    /\ dry_run /\ pc = "done" /\ result = "True"
    /\ files_to_upload_list # <<>> /\ files_to_delete_list # <<>>
    /\ dirs_to_clear # <<>>

\* the non-empty lines of the git answer
AnswerLines == {git_stdout[i] : i \in {k \in 1..Len(git_stdout) : git_stdout[k] # <<>>}}

\* the kind of a diff entry: the first letter of its status field
Kind(line) == line[1][1]

\* C8: with a baseline, the upload list of get_changed_files holds exactly the
\* paths of the added and modified entries and the new paths of the renames
\* that match no exclusion pattern, and the delete list exactly the paths of
\* the deleted entries and the old paths of the renames that match none.
C8_DiffClassification ==
    (pc = "returned" /\ from_commit # None) =>
        /\ ToSet(changes.upload) =
              {p \in {l[2] : l \in {e \in AnswerLines : Kind(e) \in {"A", "M"}}}
                      \cup {l[3] : l \in {e \in AnswerLines : Kind(e) = "R"}} :
                  ~Excluded(p)}
        /\ ToSet(changes.delete) =
              {p \in {l[2] : l \in {e \in AnswerLines : Kind(e) \in {"D", "R"}}} :
                  ~Excluded(p)}

C8_Witness ==
    /\ pc = "returned" /\ from_commit # None
    /\ exclude_patterns # <<>>
    /\ \E l \in AnswerLines :
          /\ Kind(l) = "R"
          /\ l[2] \in ToSet(changes.delete) /\ l[3] \in ToSet(changes.upload)
    /\ \E l \in AnswerLines : Kind(l) = "D" /\ Excluded(l[2])

\* C9: when the run has no recorded revision or `all` is set, the query is the
\* file list, the upload list get_changed_files returns is the list of the
\* tracked files that match no exclusion pattern, in order, its delete list
\* is empty, and the delete set that enters the always-sync merge is empty.
C9_FullRunHasNoDeletes ==
    (git_query # None /\ ValidTarget /\ (all \/ last_deploy_commit = None)) =>
        /\ git_query = "ls-files" /\ from_commit = None
        /\ changes.upload =
              SelectSeq([i \in 1..Len(git_stdout) |-> git_stdout[i][1]],
                        LAMBDA f : ~Excluded(f))
        /\ changes.delete = <<>>
        /\ pc = "merge" => (files_to_delete = {} /\ files_to_upload = ToSet(changes.upload))

C9_Witness ==
    /\ pc = "merge" /\ all /\ last_deploy_commit # None
    /\ changes.upload # <<>>
    /\ Len(changes.upload) < Len(git_stdout)

\* C10: no path of the upload list or of the delete list get_changed_files
\* returns matches an exclusion pattern.
C10_NoExcludedPathResolved ==
    pc = "returned" =>
        \A p \in ToSet(changes.upload) \cup ToSet(changes.delete) : ~Excluded(p)

C10_Witness ==
    /\ pc = "returned" /\ from_commit # None
    /\ \E l \in AnswerLines : Kind(l) = "D" /\ Excluded(l[2])
    /\ \E l \in AnswerLines : Kind(l) \in {"A", "M"} /\ Excluded(l[2])

\* C11: after the always-sync merge the upload set and the delete set share
\* no path, whatever the diff answered and whatever always_deploy_files lists
C11_UploadDeleteDisjoint ==
    pc = "plan" => files_to_upload \cap files_to_delete = {}

\* the entries of always_deploy_files that name the same path as path_str
SameEntries(path_str) ==
    {j \in 1..Len(always_deploy_files) : AsPosix(always_deploy_files[j]) = AsPosix(path_str)}

\* how often dirs_to_clear holds the remote path of path_str
ClearCount(path_str) ==
    Cardinality({k \in 1..Len(dirs_to_clear) :
                    dirs_to_clear[k] = RemoteJoin(RemoteRoot, path_str)})

\* C12 as the specification states it: after the merge the clear list holds
\* the remote path of every always-sync directory exactly once
C12_ClearedExactlyOnce ==
    pc = "plan" =>
        \A i \in 1..Len(always_deploy_files) :
            IsDir(always_deploy_files[i], local_dirs) => ClearCount(always_deploy_files[i]) = 1

\* C12: for an always-sync directory D present locally, after the merge the
\* clear list holds D's remote path once for every entry of
\* always_deploy_files that names D (exactly once when D is listed once), the
\* upload set holds every file found under D, and the delete set holds no
\* path that starts with D and the separator
C12_DirectoryMerge ==
    pc = "plan" =>
        \A i \in 1..Len(always_deploy_files) :
            LET D == always_deploy_files[i]
            IN  IsDir(D, local_dirs) =>
                  /\ ClearCount(D) = Cardinality(SameEntries(D))
                  /\ FilesUnder(D, local_files) \subseteq files_to_upload
                  /\ \A f \in files_to_delete : ~StartsWith(f, AsPosix(D) \o <<"/">>)

\* a directory listed once, with a file below it that the diff deleted
C12_Witness ==
    /\ pc = "plan"
    /\ \E i \in 1..Len(always_deploy_files) :
          LET D == always_deploy_files[i]
          IN  /\ IsDir(D, local_dirs)
              /\ Cardinality(SameEntries(D)) = 1
              /\ ClearCount(D) = 1
              /\ FilesUnder(D, local_files) # {}
              /\ \E f \in ToSet(changes.delete) : StartsWith(f, AsPosix(D) \o <<"/">>)

\* C13: after a run that went through its apply and returned success, the
\* files below the remote path of every always-sync directory are the files
\* below that directory locally, whatever the remote store held before
C13_AlwaysSyncMirrors ==
    (pc = "done" /\ result = "True" /\ applied) =>
        \A i \in 1..Len(always_deploy_files) :
            LET D == always_deploy_files[i]
            IN  IsDir(D, local_dirs) =>
                  RemoteUnder(RemoteJoin(RemoteRoot, D))
                      = {RemoteJoin(RemoteRoot, f) : f \in FilesUnder(D, local_files)}

\* the files of the upload list that exist locally: upload_file is called for them
Present(file) == file \in local_files \/ file \in local_dirs

\* the last attempt of upload_file for the current file fails
LastUploadAttemptFails ==
    /\ pc = "upload" /\ idx <= Len(files_to_upload_list)
    /\ attempt = Retries - 1 /\ attempt' = 0
    /\ upload_success_count' = upload_success_count

\* C14: when the last attempt of an upload fails the failure count grows by
\* one and the loop goes on with the next path; a run that got past its loops
\* has called upload_file for every path of the upload list
C14_FailedUploadContinues ==
    /\ [][LastUploadAttemptFails =>
             /\ total_fail_count' = total_fail_count + 1
             /\ pc' = "upload" /\ idx' = idx + 1]_vars
    /\ [](applied =>
             \A k \in 1..Len(files_to_upload_list) :
                 Present(files_to_upload_list[k]) =>
                     \E j \in Calls("upload") :
                         log[j].path = RemoteJoin(RemoteRoot, files_to_upload_list[k]))

\* the first upload of a list of two failed after its retries, and the loop
\* stands at the second
C14_Witness ==
    /\ pc = "upload" /\ idx = 2 /\ Len(files_to_upload_list) >= 2
    /\ Present(files_to_upload_list[1])
    /\ Len(log) = 1 /\ log[1].op = "upload"
    /\ upload_success_count = 0 /\ total_fail_count = 1

\* C15: a failure of a delete attempt never aborts the run: deploy() is never
\* left by an exception out of delete_remote_file
C15_DeleteFailureNeverAborts ==
    pending = "raised" => (log = <<>> \/ log[Len(log)].op # "delete")

\* C16: with overwrite disabled no STOR is issued for a remote path that exists
C16_NoStoreOverExisting ==
    ~overwrite => replaced = {}

\* C17: once a clear_remote_directory call has failed, no delete and no upload
\* follows and the Deploy Record stays as it was
C17_FailedClearAborts ==
    \A i \in 1..Len(clear_results) :
        clear_results[i] # "True" =>
            /\ \A j \in 1..Len(log) : j > i => log[j].op \notin {"delete", "upload"}
            /\ deploy_log = log_at_start

\* the plan of a finished run is empty: get_changed_files answered and the
\* merge left nothing to upload, delete or clear
EmptyPlan ==
    /\ pc = "done" /\ git_query # None
    /\ files_to_upload_list = <<>> /\ files_to_delete_list = <<>> /\ dirs_to_clear = <<>>

\* C20: a run with an empty plan returns success without a session, and the
\* Deploy Record is rewritten with the current revision exactly when that
\* revision differs from the recorded one
C20_EmptyPlanRecordsRevision ==
    EmptyPlan =>
        /\ result = "True" /\ connect_calls = 0 /\ ftp = "none"
        /\ IF last_deploy_commit # current_commit
           THEN /\ save_calls = 1
                /\ deploy_log = [log_at_start EXCEPT ![app_name] = Record(current_commit, "now")]
           ELSE save_calls = 0 /\ deploy_log = log_at_start

\* an empty plan at a revision that is not the recorded one
C20_Witness ==
    /\ EmptyPlan /\ result = "True"
    /\ last_deploy_commit \notin {None, current_commit}
    /\ deploy_log[app_name].last_commit = current_commit

\* the running call is clear_remote_directory, it has returned
ClearReturned ==
    call.fn = "clear_remote_directory" /\ pc \in {"c_done", "accounted"}

\* C18: after clear_remote_directory(remote_dir) returns True on a directory
\* that existed, remote_dir still exists and nothing is left below it
C18_ClearLeavesEmptyDirectory ==
    (ClearReturned /\ ret = "True" /\ call.arg \in srv_at_start.dirs) =>
        /\ call.arg \in srv_dirs
        /\ Below(call.arg, srv_dirs \cup srv_files) = {}

\* the target of the running call did not exist when the call started
TargetAbsent ==
    IF call.fn = "clear_remote_directory"
    THEN call.arg \notin srv_at_start.dirs
    ELSE call.arg \notin srv_at_start.files

\* C19: a delete_remote_file or clear_remote_directory call whose target is
\* absent returns True at once (one DELE; pwd, the refused cwd and the cwd
\* back), leaves the server's tree as it was and counts no failure
C19_AbsentTargetSucceeds ==
    (pc = "accounted" /\ TargetAbsent) =>
        /\ ret = "True"
        /\ srv_dirs = srv_at_start.dirs /\ srv_files = srv_at_start.files
        /\ total_fail_count = 0
        /\ sent = IF call.fn = "clear_remote_directory"
                  THEN <<"PWD", "CWD", "CWD">> ELSE <<"DELE">>

\* both calls met an absent target on a server that holds other files
C19_Witness ==
    /\ pc = "accounted" /\ TargetAbsent /\ ret = "True"
    /\ srv_files # {}
    /\ \/ call.fn = "delete_remote_file" /\ delete_success_count = 1
       \/ call.fn = "clear_remote_directory" /\ cwd = original_cwd

\* C21: deploy() for an unknown application, a missing local path or a local
\* path without a .git directory returns False at once: it runs no git
\* query, opens no session and leaves the Deploy Record alone
C21_InvalidTargetFailsFast ==
    ~ValidTarget =>
        /\ pc \in {"validate", "done"}
        /\ pc = "done" => result = "False"
        /\ current_commit = None /\ git_query = None
        /\ connect_calls = 0 /\ ftp = "none"
        /\ save_calls = 0 /\ deploy_log = log_at_start

\* a known application whose local path is no git working tree
C21_Witness ==
    /\ app_name \in Apps /\ path_state = "nogit"
    /\ pc = "done" /\ result = "False"

\* C22: a run that a git query or connect_ftp ended with sys.exit(1) has run
\* no clear, delete or upload, has not retried the connection, has left the
\* Deploy Record alone, and the process ends with a non-zero status
C22_FatalFailureAborts ==
    result = "SystemExit" =>
        /\ pc = "done"
        /\ log = <<>> /\ clear_results = <<>>
        /\ connect_calls <= 1
        /\ save_calls = 0 /\ deploy_log = log_at_start
        /\ ExitStatus(result, dry_run) # 0

\* connect_ftp failed with a plan to apply
C22_Witness ==
    /\ result = "SystemExit" /\ connect_calls = 1
    /\ files_to_upload_list # <<>>

\* the entries of always_deploy_files that exist below local_path
ExistingEntries ==
    SelectSeq(always_deploy_files, LAMBDA path_str : AlwaysPresent(path_str))

\* C26: after the merge the upload set holds every always-sync path that is
\* an existing single file, whatever the diff listed; the entries that do not
\* exist locally change nothing: the plan is the one the existing entries give
C26_AlwaysSyncFile ==
    pc = "plan" =>
        /\ \A i \in 1..Len(always_deploy_files) :
               IsFile(always_deploy_files[i], local_files)
                   => AsPosix(always_deploy_files[i]) \in files_to_upload
        /\ LET m == MergeAlways([upload |-> ToSet(changes.upload),
                                 delete |-> ToSet(changes.delete), clear |-> <<>>],
                                ExistingEntries, local_files, local_dirs, RemoteRoot)
           IN  /\ files_to_upload = m.upload
               /\ files_to_delete = m.delete
               /\ dirs_to_clear = m.clear

\* an existing file the diff did not list, next to an entry that does not exist
C26_Witness ==
    /\ pc = "plan"
    /\ \E i, j \in 1..Len(always_deploy_files) :
          /\ IsFile(always_deploy_files[i], local_files)
          /\ AsPosix(always_deploy_files[i]) \notin ToSet(changes.upload)
          /\ AsPosix(always_deploy_files[i]) \in files_to_upload
          /\ ~AlwaysPresent(always_deploy_files[j])

\* the positions of the argument of filter_files whose path matches no pattern
Kept == {i \in 1..Len(filter_arg) : ~Excluded(filter_arg[i])}

\* the k-th of these positions
KeptAt(k) == CHOOSE i \in Kept : Cardinality({j \in Kept : j <= i}) = k

\* C27: filter_files returns the paths of its argument that match no
\* exclusion pattern, each as often as it came and in the order they came; an
\* empty pattern list returns the argument
C27_FilterFilesExact ==
    pc = "returned" =>
        /\ Len(filtered) = Cardinality(Kept)
        /\ \A k \in 1..Len(filtered) : filtered[k] = filter_arg[KeptAt(k)]
        /\ exclude_patterns = <<>> => filtered = filter_arg

\* a suffix pattern and a substring pattern each drop a path, two paths stay
C27_Witness ==
    /\ pc = "returned"
    /\ exclude_patterns = <<star_log, c2>>
    /\ filter_arg = <<c_x, k_log, a_js>>
    /\ filtered = <<c_x, a_js>>

\* C24: get_last_deploy_commit(app) returns the revision of the latest
\* save_deploy_commit for app; with no save it returns what the file held for
\* app, and None when the file is missing, is unreadable or has no entry
C24_GetReturnsLatestSave ==
    got.app # None =>
        /\ got.value = IF saved[got.app] # None THEN saved[got.app]
                       ELSE IF store_at_start = "ok"
                       THEN log_at_start[got.app].last_commit
                       ELSE None
        /\ store_state # "ok" => got.value = None
        /\ (saved[got.app] = None /\ log_at_start[got.app] = NoRecord) => got.value = None

\* a second save for the application replaced the first, and the get sees it
C24_Witness ==
    /\ got.app # None /\ save_calls = 2
    /\ got.value = saved[got.app]
    /\ log_at_start[got.app].last_commit \notin {None, got.value}
    /\ \A a \in Apps : a # got.app => saved[a] = None

\* C23: in preview mode, once the tool is constructed and an application is
\* selected, the process exit code is 0 whatever happens in deploy()
C23_PreviewExitsZero ==
    (pc = "exited" /\ dry_run /\ init_raised = None /\ app_name # None) =>
        exit_status = 0

\* C25: constructing the tool with a configuration file that does not exist
\* ends with SystemExit and with no other exception
C25_MissingConfigSystemExit ==
    (pc # "main" /\ config_state = "missing") => init_raised = "SystemExit"

\* the first i segments of the path ensure_remote_directory was given
Segment(i) == SubSeq(call.arg, 1, i)

\* segment i was there when the call started, or the server lets it be made
SegmentPasses(i) ==
    \/ Segment(i) \in srv_at_start.dirs
    \/ Segment(i) \notin srv_at_start.files \cup srv_denied

\* how far down the path the walk gets before a creation is refused
Reach == Cardinality({i \in 1..Len(call.arg) : \A j \in 1..i : SegmentPasses(j)})

\* C30: ensure_remote_directory returns without raising; every segment above
\* the first refused creation is a directory afterwards, one that existed is
\* left as it was, and no creation is tried below a refused one
C30_EnsureCreatesDownward ==
    (call.fn = "ensure_remote_directory" /\ pc = "e_done") =>
        /\ ret = "returned"
        /\ srv_dirs = srv_at_start.dirs \cup {Segment(i) : i \in 1..Reach}
        /\ srv_files = srv_at_start.files
        /\ LET mkds == Cardinality({k \in 1..Len(sent) : sent[k] = "MKD"})
               missing == {i \in 1..Reach : Segment(i) \notin srv_at_start.dirs}
           IN  mkds = IF call.arg \in srv_at_start.dirs THEN 0
                      ELSE Cardinality(missing)
                           + (IF Reach < Len(call.arg) THEN 1 ELSE 0)

\* /s existed, /s/c was created, the creation of /s/c/d was refused
C30_Witness ==
    /\ call = [fn |-> "ensure_remote_directory", arg |-> <<"s", "c", "d">>]
    /\ pc = "e_done" /\ ret = "returned"
    /\ srv_at_start.dirs = {<<"s">>}
    /\ srv_dirs = {<<"s">>, <<"s", "c">>}
    /\ <<"s", "c", "d">> \in srv_denied

\* C28: upload_file and delete_remote_file make at most `retries` attempts,
\* sleep once between two attempts and not after the last, and end by
\* returning True or False
C28_BoundedRetries ==
    pc \in {"u_done", "d_done"} =>
        /\ ret \in {"True", "False"}
        /\ attempt <= Retries - 1
        /\ sleeps = IF ret = "True" THEN attempt ELSE Retries - 1

\* C29: an upload_file call that stored the file below a directory has had
\* its ensure_remote_directory return before
C29_StoreAfterEnsure ==
    (pc = "u_done" /\ ret = "True" /\ \E k \in 1..Len(sent) : sent[k] = "STOR") =>
        (Parent(call.arg) # <<>> => ensured)

\* f lies under an always-sync directory that exists locally
UnderAlwaysDir(f) ==
    \E i \in 1..Len(always_deploy_files) :
        /\ IsDir(always_deploy_files[i], local_dirs)
        /\ StartsWith(f, AsPosix(always_deploy_files[i]) \o <<"/">>)

\* C38: after the merge the delete set is the delete set of the resolved
\* change-set without the paths under an always-sync directory; a path that
\* only shares a name prefix with the directory stays
C38_MergePrunesOnlyUnderDirectory ==
    pc = "plan" =>
        files_to_delete = {f \in ToSet(changes.delete) : ~UnderAlwaysDir(f)}

\* c/x is pruned by the always-sync directory c, c2/y stays in the delete set
C38_Witness ==
    /\ pc = "plan"
    /\ c_x \in ToSet(changes.delete) /\ c2_y \in ToSet(changes.delete)
    /\ UnderAlwaysDir(c_x)
    /\ c_x \notin files_to_delete /\ c2_y \in files_to_delete

\* f is an always-sync file that exists locally, or a local file under an
\* always-sync directory
AlwaysSynced(f) ==
    \E i \in 1..Len(always_deploy_files) :
        \/ IsFile(always_deploy_files[i], local_files) /\ f = AsPosix(always_deploy_files[i])
        \/ IsDir(always_deploy_files[i], local_dirs)
              /\ f \in FilesUnder(always_deploy_files[i], local_files)

\* C32: after the merge the upload list holds every always-synced file that
\* matches an exclusion pattern
C32_AlwaysSyncIgnoresExclusion ==
    pc = "plan" =>
        \A f \in WorkFiles :
            (AlwaysSynced(f) /\ Excluded(f)) => f \in ToSet(files_to_upload_list)

\* k.log matches '*.log' and c/x matches 'c'; both are uploaded
C32_Witness ==
    /\ pc = "plan"
    /\ AlwaysSynced(k_log) /\ Excluded(k_log) /\ k_log \in ToSet(files_to_upload_list)
    /\ AlwaysSynced(c_x) /\ Excluded(c_x) /\ c_x \in ToSet(files_to_upload_list)
    /\ k_log \notin ToSet(changes.upload) /\ c_x \notin ToSet(changes.upload)

\* C33: a run with dry_run set leaves deploy_history.json as it found it
C33_DryRunNeverWrites ==
    (pc = "done" /\ dry_run) => (deploy_log = log_at_start /\ save_calls = 0)

\* C37: save_deploy_commit changes only the record of its application: an
\* application no save was made for has the record the file carried before
C37_SaveKeepsOtherRecords ==
    pc = "store" =>
        \A a \in Apps : saved[a] = None => deploy_log[a] = log_at_start[a]

\* C31: when two save_deploy_commit calls for two applications have both
\* returned, the file holds the new revision of both
C31_NoLostUpdate ==
    (savers # <<>> /\ \A p \in Savers : savers[p].pc = "done") =>
        \A p \in Savers : deploy_log[savers[p].app].last_commit = savers[p].commit_hash

\* C36: when clear_remote_directory has returned True or False, the session's
\* working directory is the one it was when the call started
C36_ClearRestoresCwd ==
    (call.fn = "clear_remote_directory" /\ pc \in {"c_done", "accounted"}
        /\ ret \in {"True", "False"}) => cwd = srv_at_start.cwd

\* the call started in /s, went down the tree, met a refused delete and
\* returned False with the session back in /s
C36_Witness ==
    /\ call.fn = "clear_remote_directory" /\ pc = "c_done" /\ ret = "False"
    /\ srv_at_start.cwd = <<"s">> /\ cwd = <<"s">>
    /\ Cardinality({k \in 1..Len(sent) : sent[k] = "CWD"}) >= 4

\* C34: a run connects at most once; every step of the clear, delete and
\* upload loops is taken on the session that connect opened and that is not
\* yet quit; once the session is closed the run takes no further step
C34_OperationsInsideSession ==
    /\ [](connect_calls <= 1 /\ quit_calls <= connect_calls)
    /\ [][(pc \in {"clear", "delete", "upload"}) =>
             (ftp = "open" /\ ftp' = "open" /\ connect_calls = 1 /\ quit_calls = 0)]_vars
    /\ [](ftp = "closed" => pc = "done")
    /\ [](log # <<>> => connect_calls = 1)

\* a run cleared, deleted and uploaded, and has closed its session
C34_Witness ==
    /\ pc = "done" /\ ftp = "closed" /\ connect_calls = 1 /\ quit_calls = 1
    /\ Calls("clear") # {} /\ Calls("delete") # {} /\ Calls("upload") # {}

\* C35: when a run has got past its three loops, upload successes, delete
\* successes and failures add up to the length of the upload list plus the
\* length of the delete list
C35_CountsAddUp ==
    applied =>
        upload_success_count + delete_success_count + total_fail_count
            = Len(files_to_upload_list) + Len(files_to_delete_list)

\* a run with a delete, an upload that succeeded and an upload path whose
\* local file is missing, counted as the one failure
C35_Witness ==
    /\ applied /\ files_to_delete_list # <<>>
    /\ \E k \in 1..Len(files_to_upload_list) : ~Present(files_to_upload_list[k])
    /\ upload_success_count >= 1 /\ delete_success_count >= 1
    /\ total_fail_count = 1
    /\ Cardinality(Calls("upload")) = Len(files_to_upload_list) - 1

====
